---- MODULE Spec2Model ----
(***************************************************************************)
(* ConvoPeq: the RCU hand-off of the convolution state between the message *)
(* thread, the IR loader thread and the audio thread.                      *)
(*                                                                         *)
(* Two ConvolverProcessor instances are modelled, as in AudioEngine: "ui"  *)
(* (uiConvolverProcessor, the one loadImpulseResponse is called on) and    *)
(* "dsp" (the convolver of a DSPCore, kept in step with syncStateFrom and  *)
(* syncParametersFrom).  process() is a member of the class, so the audio  *)
(* thread may run it on either instance.                                   *)
(*                                                                         *)
(* ConvolverProcessor.cpp handles the state through std::shared_ptr        *)
(* (make_shared, use_count, an atomic slot that is loaded by value); the   *)
(* model follows the .cpp: a load of the slot takes a counted reference.   *)
(***************************************************************************)
EXTENDS Integers, Sequences, FiniteSets, TLC

\* ------------------------------------------------------------------ bounds
MaxObj == 3          \* StereoConvolver objects ever allocated
MaxReq == 2          \* load requests that ever start a LoaderThread

Procs     == {"ui", "dsp"}
LoadProcs == {"ui"}                    \* instance whose loadImpulseResponse is called
Objs      == 1 .. MaxObj
Reqs      == 1 .. MaxReq
NoFile    == "none"                    \* juce::File(): a rebuild request
FileKinds == {"ok", "noreader", "empty", "missing"}
\* device configurations (sample rate and block size) prepareToPlay is called with
DeviceSpecs == {"a", "b"}

VARIABLES
    convolution,    \* [Procs -> 0..MaxObj]   the active slot, 0 = nullptr
    trashBin,       \* [Procs -> Seq(Objs)]   superseded states
    trashBinLock,   \* [Procs -> thread | "free"]
    obj,            \* [Objs -> record]       control block and construction stage
    audio,          \* the audio thread's position in process() and its locals
    worker,         \* [Reqs -> record]       one LoaderThread per started request
    activeLoader,   \* [Procs -> 0..MaxReq]
    msgQ,           \* messages posted with MessageManager::callAsync
    msg,            \* the message thread: position and the handler's locals
    isLoading,      \* [Procs -> BOOLEAN]
    isRebuilding,   \* [Procs -> BOOLEAN]
    originalIR,     \* [Procs -> 0..MaxReq]   request whose file the cached asset holds
    hist,           \* history of what the callers could observe
    currentSpec,    \* [Procs -> DeviceSpecs] rate and block size set by prepareToPlay
    param,          \* [Procs -> record]      useMinPhase and targetIRLengthSec
    ing,            \* one run of LoaderThread::run on sample data, and what it leaves
    rt,             \* a DSPCore's convolver in the audio callback: delay line, convolvers,
                    \* mix smoother, flags and the last block
    eng,            \* AudioEngine: currentDSP, the DSPCores and the two trash bins
    cep             \* a cepstrum of convertToMinimumPhase, before and after liftering

\* the processors, their threads and the message queue
procVars == << convolution, trashBin, trashBinLock, obj, audio, worker, activeLoader,
               msgQ, msg, isLoading, isRebuilding, originalIR, hist, currentSpec, param >>

vars == << procVars, ing, rt, eng, cep >>

\* ------------------------------------------------------------------ helpers
Range(s) == { s[i] : i \in DOMAIN s }

RECURSIVE SelectSeq2(_, _)
\* std::remove_if keeps the entries, in order, for which the predicate is false
SelectSeq2(s, keep) ==
    IF s = << >> THEN << >>
    ELSE IF Head(s) \in keep THEN << Head(s) >> \o SelectSeq2(Tail(s), keep)
         ELSE SelectSeq2(Tail(s), keep)

NoObj == [ st |-> "none", rc |-> 0, req |-> 0, pub |-> FALSE, freedBy |-> "none" ]

\* shared_ptr copy: one more owner of the control block
Inc(ob, o) == IF o = 0 THEN ob ELSE [ ob EXCEPT ![o].rc = @ + 1 ]

\* shared_ptr destructor on thread `who`: the last owner deletes the object
Dec(ob, o, who) ==
    IF o = 0 THEN ob
    ELSE IF ob[o].rc <= 1
         THEN [ ob EXCEPT ![o].rc = 0, ![o].st = "freed", ![o].freedBy = who ]
         ELSE [ ob EXCEPT ![o].rc = @ - 1 ]

\* std::make_shared<StereoConvolver>(): the next unused object
FreshObjs == { o \in Objs : obj[o].st = "none" }
NextObj   == CHOOSE o \in FreshObjs : \A x \in FreshObjs : o <= x

Running(r) == worker[r].pc \notin { "unborn", "exited", "killed" }
FreshReqs  == { r \in Reqs : worker[r].pc = "unborn" }
NextReq    == CHOOSE r \in FreshReqs : \A x \in FreshReqs : r <= x

NoWorker == [ owner |-> "ui", pc |-> "unborn", rebuild |-> FALSE, file |-> NoFile,
              src |-> 0, obj |-> 0, exit |-> FALSE, early |-> FALSE, out |-> "none",
              ret |-> "none", spec |-> "none", useMinPhase |-> FALSE, sec |-> 0 ]

\* std::atomic<bool> useMinPhase{false}; targetIRLengthSec{IR_LENGTH_DEFAULT_SEC}, held
\* in tenths of a second
DefaultParam == [ useMinPhase |-> FALSE, targetIRLengthSec |-> 10 ]

IdleAudio == [ pc |-> "idle", proc |-> "ui", conv |-> 0, lat |-> 0, ch0 |-> 0, ch1 |-> 0 ]
IdleMsg   == [ pc |-> "idle", proc |-> "ui", file |-> NoFile, old |-> 0, new |-> 0,
               req |-> 0 ]

\* ------------------------------------------------------------------ initial state
\* the processors, their threads and the message queue after construction
InitProc ==
    /\ convolution  = [ p \in Procs |-> 0 ]
    /\ trashBin     = [ p \in Procs |-> << >> ]
    /\ trashBinLock = [ p \in Procs |-> "free" ]
    /\ obj          = [ o \in Objs |-> NoObj ]
    /\ audio        = IdleAudio
    /\ worker       = [ r \in Reqs |-> NoWorker ]
    /\ activeLoader = [ p \in Procs |-> 0 ]
    /\ msgQ         = << >>
    /\ msg          = IdleMsg
    /\ isLoading    = [ p \in Procs |-> FALSE ]
    /\ isRebuilding = [ p \in Procs |-> FALSE ]
    /\ originalIR   = [ p \in Procs |-> 0 ]
    /\ hist         = [ published |-> << >>, superseded |-> {}, notified |-> {},
                        lastRet |-> "none", lastChange |-> "none", setUnloaded |-> FALSE,
                        skipped |-> FALSE ]
    /\ currentSpec  = [ p \in Procs |-> "a" ]
    /\ param        = [ p \in Procs |-> DefaultParam ]

\* no LoaderThread::run is followed on sample data
NoIngest == [ pc |-> "off" ]
\* no callback, no DSPCore and no cepstrum is followed
NoRealtime == [ pc |-> "off" ]
NoEngine   == [ pc |-> "off" ]
NoCepstrum == [ pc |-> "off" ]

Idle == rt = NoRealtime /\ eng = NoEngine /\ cep = NoCepstrum

Init == InitProc /\ ing = NoIngest /\ Idle

\* ------------------------------------------------------------------ audio thread
\* mutant: the slot guarded by the queue's lock, which the load waits for
LoadSlotLocked(p) ==
    /\ trashBinLock[p] = "free"
    /\ audio' = [ IdleAudio EXCEPT !.pc = "loaded", !.proc = p, !.conv = convolution[p] ]
    /\ obj'   = Inc(obj, convolution[p])

\* mutant: the slot read as a plain pointer, no counted reference taken
LoadSlotRaw(p) ==
    /\ audio' = [ IdleAudio EXCEPT !.pc = "loaded", !.proc = p, !.conv = convolution[p] ]
    /\ obj'   = obj

\* process(), Step 1: auto conv = convolution.load(acquire)
LoadSlot(p) ==
    /\ audio' = [ IdleAudio EXCEPT !.pc = "loaded", !.proc = p, !.conv = convolution[p] ]
    /\ obj'   = Inc(obj, convolution[p])

AudioLoad(p) ==
    /\ audio.pc = "idle"
    /\ LoadSlot(p)
    /\ UNCHANGED << convolution, trashBin, trashBinLock, worker, activeLoader, msgQ, msg,
                    isLoading, isRebuilding, originalIR, hist,
                    currentSpec, param, ing, rt, eng, cep >>

\* mutant: the slot read again at each use instead of the local conv
UsedStateReload == convolution[audio.proc]

\* the state whose latency / convolvers a step of process() dereferences
UsedState == audio.conv

\* process(): if (conv) setDelay(conv->latency + conv->irLatency); then Step 2 and 3:
\* return when not prepared, bypassed, no state, or the block does not fit
AudioLatency(early) ==
    /\ audio.pc = "loaded"
    /\ IF audio.conv = 0 \/ early
       THEN /\ audio' = IdleAudio
            /\ obj'   = Dec(obj, audio.conv, "audio")
       ELSE /\ audio' = [ audio EXCEPT !.pc = "ch0", !.lat = UsedState ]
            /\ obj'   = obj
    /\ UNCHANGED << convolution, trashBin, trashBinLock, worker, activeLoader, msgQ, msg,
                    isLoading, isRebuilding, originalIR, hist,
                    currentSpec, param, ing, rt, eng, cep >>

\* process(), Step 5 and Step 6 for ch = 0: delayLine.process, conv->convolvers[0].process
AudioCh0 ==
    /\ audio.pc = "ch0"
    /\ audio' = [ audio EXCEPT !.pc = "ch1", !.ch0 = UsedState ]
    /\ UNCHANGED << convolution, trashBin, trashBinLock, obj, worker, activeLoader, msgQ,
                    msg, isLoading, isRebuilding, originalIR, hist,
                    currentSpec, param, ing, rt, eng, cep >>

\* process(), Step 6 for ch = 1: conv->convolvers[1].process
AudioCh1 ==
    /\ audio.pc = "ch1"
    /\ audio' = [ audio EXCEPT !.pc = "mix", !.ch1 = UsedState ]
    /\ UNCHANGED << convolution, trashBin, trashBinLock, obj, worker, activeLoader, msgQ,
                    msg, isLoading, isRebuilding, originalIR, hist,
                    currentSpec, param, ing, rt, eng, cep >>

\* process(), Step 7 and the return: the local conv goes out of scope
AudioReturn ==
    /\ audio.pc = "mix"
    /\ audio' = IdleAudio
    /\ obj'   = Dec(obj, audio.conv, "audio")
    /\ UNCHANGED << convolution, trashBin, trashBinLock, worker, activeLoader, msgQ, msg,
                    isLoading, isRebuilding, originalIR, hist,
                    currentSpec, param, ing, rt, eng, cep >>

AudioStep ==
    \/ \E p \in Procs : AudioLoad(p)
    \/ \E early \in BOOLEAN : AudioLatency(early)
    \/ AudioCh0
    \/ AudioCh1
    \/ AudioReturn

\* ------------------------------------------------------------------ loader thread
\* a thread that runs no more: only its owner, its outcome and what it built its
\* kernel with are still of interest
Ended(r, how, why) ==
    [ NoWorker EXCEPT !.owner = worker[r].owner, !.pc = how, !.out = why,
                      !.ret = worker[r].ret, !.early = worker[r].early,
                      !.spec = worker[r].spec,
                      !.useMinPhase = (why = "posted" /\ worker[r].useMinPhase),
                      !.sec = IF why = "posted" THEN worker[r].sec ELSE 0 ]

\* mutant: an early return posts nothing
WorkerExitSilent(r, why) ==
    /\ worker' = [ worker EXCEPT ![r] = Ended(r, "exited", why) ]
    /\ obj'    = Dec(obj, worker[r].obj, "worker")
    /\ msgQ'   = msgQ

\* run() returns early: FlagResetter posts the flag reset unless the thread was asked
\* to exit; a local newConv, if any, is released
WorkerExit(r, why) ==
    /\ worker' = [ worker EXCEPT ![r] = Ended(r, "exited", why) ]
    /\ obj'    = Dec(obj, worker[r].obj, "worker")
    /\ msgQ'   = IF worker[r].exit THEN msgQ
                 ELSE Append(msgQ, [ type |-> "reset", proc |-> worker[r].owner,
                                     req |-> r, obj |-> 0, rebuild |-> worker[r].rebuild ])

\* run(), stage 1: the cached asset, or the file through an AudioFormatReader
WAcquire(r) ==
    /\ worker[r].pc = "acquire"
    /\ IF ~worker[r].rebuild /\ worker[r].file \in { "missing", "noreader", "empty" }
       THEN WorkerExit(r, "aborted")
       ELSE IF worker[r].exit
            THEN WorkerExit(r, "cancelled")
            ELSE /\ worker' = [ worker EXCEPT ![r].pc = "stages" ]
                 /\ UNCHANGED << obj, msgQ >>
    /\ UNCHANGED << convolution, trashBin, trashBinLock, audio, activeLoader, msg,
                    isLoading, isRebuilding, originalIR, hist,
                    currentSpec, param, ing, rt, eng, cep >>

\* run(), stages 1.5 to 4 (resample, trim, normalise, cut, minimum phase), each
\* followed by a threadShouldExit() check; stage 3 reads targetIRLengthSec
WStages(r) ==
    /\ worker[r].pc = "stages"
    /\ IF worker[r].exit
       THEN WorkerExit(r, "cancelled")
       ELSE /\ worker' = [ worker EXCEPT
                              ![r].pc = "construct",
                              ![r].sec = param[worker[r].owner].targetIRLengthSec ]
            /\ UNCHANGED << obj, msgQ >>
    /\ UNCHANGED << convolution, trashBin, trashBinLock, audio, activeLoader, msg,
                    isLoading, isRebuilding, originalIR, hist,
                    currentSpec, param, ing, rt, eng, cep >>

\* the message run() posts with callAsync: it captures newConv
PostApply(r, o) ==
    Append(msgQ, [ type |-> "apply", proc |-> worker[r].owner, req |-> r, obj |-> o,
                   rebuild |-> worker[r].rebuild ])

\* run(), stage 5: auto newConv = std::make_shared<StereoConvolver>()
WConstruct(r) ==
    /\ worker[r].pc = "construct"
    /\ FreshObjs # {}
    /\ worker' = [ worker EXCEPT ![r].pc = "init", ![r].obj = NextObj ]
    /\ obj'    = [ obj EXCEPT ![NextObj] = [ NoObj EXCEPT !.st = "alloc", !.rc = 1,
                                                          !.req = r ] ]
    /\ UNCHANGED << convolution, trashBin, trashBinLock, audio, activeLoader, msgQ, msg,
                    isLoading, isRebuilding, originalIR, hist,
                    currentSpec, param, ing, rt, eng, cep >>

\* mutant: the completion goes on without init() having run
WInitSkipped(r) ==
    /\ worker[r].pc = "init"
    /\ worker' = [ worker EXCEPT ![r].pc = "check" ]
    /\ UNCHANGED << convolution, trashBin, trashBinLock, obj, audio, activeLoader, msgQ, msg,
                    isLoading, isRebuilding, originalIR, hist,
                    currentSpec, param, ing, rt, eng, cep >>

\* run(), stage 5: newConv->init(blockSize, irL, irR, targetLength, irPeakLatency)
WInit(r) ==
    /\ worker[r].pc = "init"
    /\ worker' = [ worker EXCEPT ![r].pc = "check" ]
    /\ obj'    = [ obj EXCEPT ![worker[r].obj].st = "complete" ]
    /\ UNCHANGED << convolution, trashBin, trashBinLock, audio, activeLoader, msgQ, msg,
                    isLoading, isRebuilding, originalIR, hist,
                    currentSpec, param, ing, rt, eng, cep >>

\* mutant: the last check does not look at the flag
WCheckBlind(r) ==
    /\ worker[r].pc = "check"
    /\ worker' = [ worker EXCEPT ![r].pc = "post" ]
    /\ UNCHANGED << convolution, trashBin, trashBinLock, obj, audio, activeLoader, msgQ,
                    msg, isLoading, isRebuilding, originalIR, hist, currentSpec, param, ing, rt, eng, cep >>

\* run(): the last threadShouldExit() check, before the completion is posted
WCheck(r) ==
    /\ worker[r].pc = "check"
    /\ IF worker[r].exit
       THEN WorkerExit(r, "cancelled")
       ELSE /\ worker' = [ worker EXCEPT ![r].pc = "post" ]
            /\ UNCHANGED << obj, msgQ >>
    /\ UNCHANGED << convolution, trashBin, trashBinLock, audio, activeLoader, msg,
                    isLoading, isRebuilding, originalIR, hist,
                    currentSpec, param, ing, rt, eng, cep >>

\* mutant: the loader thread exchanges the slot itself instead of posting
WPostDirect(r) ==
    /\ worker[r].pc = "post"
    /\ convolution' = [ convolution EXCEPT ![worker[r].owner] = worker[r].obj ]
    /\ obj'    = Dec([ obj EXCEPT ![worker[r].obj].pub = TRUE ],
                     convolution[worker[r].owner], "worker")
    /\ worker' = [ worker EXCEPT ![r] = Ended(r, "exited", "posted") ]
    /\ UNCHANGED << trashBin, trashBinLock, audio, activeLoader, msgQ, msg,
                    isLoading, isRebuilding, originalIR, hist,
                    currentSpec, param, ing, rt, eng, cep >>

\* run(), stage 6: callAsync(applyNewState), resetter.success = true, the thread ends;
\* the reference of the local newConv passes to the posted lambda
WPost(r) ==
    /\ worker[r].pc = "post"
    /\ msgQ'   = PostApply(r, worker[r].obj)
    /\ worker' = [ worker EXCEPT ![r] = Ended(r, "exited", "posted") ]
    /\ UNCHANGED << convolution, trashBin, trashBinLock, obj, audio, activeLoader, msg,
                    isLoading, isRebuilding, originalIR, hist,
                    currentSpec, param, ing, rt, eng, cep >>

\* the positions of run() at which memory is allocated: file and sample buffers, the
\* transform's vectors, make_shared, init()'s copies, the posted message
Allocating == { "acquire", "stages", "construct", "init", "post" }

\* mutant: the exception comes once the completion is on its way
WBadAllocAfterPost(r) ==
    /\ worker[r].pc = "post"
    /\ worker' = [ worker EXCEPT ![r] = Ended(r, "exited", "badalloc") ]
    /\ msgQ'   = PostApply(r, worker[r].obj)
    /\ UNCHANGED << convolution, trashBin, trashBinLock, obj, audio, activeLoader, msg,
                    isLoading, isRebuilding, originalIR, hist, currentSpec, param, ing, rt, eng, cep >>

\* run(): an allocation throws std::bad_alloc; catch (const std::bad_alloc&) at the end
\* of run() takes it, the locals are released, FlagResetter posts the flag reset
WBadAlloc(r) ==
    /\ worker[r].pc \in Allocating
    /\ WorkerExit(r, "badalloc")
    /\ UNCHANGED << convolution, trashBin, trashBinLock, audio, activeLoader, msg,
                    isLoading, isRebuilding, originalIR, hist, currentSpec, param, ing, rt, eng, cep >>

LoaderStep ==
    \E r \in Reqs :
        \/ WAcquire(r)
        \/ WStages(r)
        \/ WConstruct(r)
        \/ WInit(r)
        \/ WCheck(r)
        \/ WPost(r)
        \/ WBadAlloc(r)

\* ------------------------------------------------------------------ message thread
\* mutant: the old LoaderThread is dropped without being stopped
OldLoaderNotJoined(p) == TRUE

\* ~LoaderThread: stopThread(4000) has returned, the old thread runs no more
OldLoaderStopped(p) == activeLoader[p] = 0 \/ ~Running(activeLoader[p])

\* the thread has its last threadShouldExit() check still to come
BeforeLastCheck(w) == w.pc \in { "acquire", "stages", "construct", "init", "check" }

\* a request that has neither published its kernel nor failed on its own
Incomplete(r) ==
    /\ r # 0
    /\ worker[r].out # "aborted"
    /\ r \notin Range(hist.published)

\* loadImpulseResponse: std::make_unique<LoaderThread>(..., currentSpec.sampleRate,
\* currentSpec.maximumBlockSize, useMinPhase.load()), startThread(), return true; s is
\* currentSpec and mp is useMinPhase at the call
StartLoaderAt(w, p, f, s, mp) ==
    /\ activeLoader' = [ activeLoader EXCEPT ![p] = NextReq ]
    /\ worker' = [ w EXCEPT ![NextReq] =
                     [ NoWorker EXCEPT !.owner = p, !.pc = "acquire",
                                       !.rebuild = (f = NoFile), !.file = f,
                                       !.src = IF f = NoFile THEN originalIR[p] ELSE 0,
                                       !.ret = "true", !.spec = s,
                                       !.useMinPhase = mp ] ]

StartLoader(w, p, f) == StartLoaderAt(w, p, f, currentSpec[p], param[p].useMinPhase)

\* mutant: the skipped request still signals the loader in flight to exit
LoadSkipCancels(p) ==
    /\ msg.pc = "idle"
    /\ isRebuilding[p]
    /\ hist' = [ hist EXCEPT !.lastRet = "true", !.skipped = TRUE ]
    /\ worker' = IF activeLoader[p] # 0 /\ Running(activeLoader[p])
                 THEN [ worker EXCEPT ![activeLoader[p]].exit = TRUE ] ELSE worker
    /\ UNCHANGED << convolution, trashBin, trashBinLock, obj, audio, activeLoader,
                    msgQ, msg, isLoading, isRebuilding, originalIR,
                    currentSpec, param, ing, rt, eng, cep >>

\* loadImpulseResponse, rebuild while isRebuilding is set: skipped, returns true
LoadSkip(p) ==
    /\ msg.pc = "idle"
    /\ isRebuilding[p]
    /\ hist' = [ hist EXCEPT !.lastRet = "true", !.skipped = TRUE ]
    /\ UNCHANGED << convolution, trashBin, trashBinLock, obj, audio, worker, activeLoader,
                    msgQ, msg, isLoading, isRebuilding, originalIR,
                    currentSpec, param, ing, rt, eng, cep >>

\* mutant: the file is looked for once the flag is set
LoadRejectLate(p, f) ==
    /\ msg.pc = "idle"
    /\ \/ f = NoFile /\ ~isRebuilding[p] /\ originalIR[p] = 0
       \/ f = "missing"
    /\ hist' = [ hist EXCEPT !.lastRet = "false", !.skipped = FALSE ]
    /\ isLoading' = [ isLoading EXCEPT ![p] = TRUE ]
    /\ UNCHANGED << convolution, trashBin, trashBinLock, obj, audio, worker, activeLoader,
                    msgQ, msg, isRebuilding, originalIR,
                    currentSpec, param, ing, rt, eng, cep >>

\* loadImpulseResponse returns false: rebuild without a cached asset, or no such file
LoadReject(p, f) ==
    /\ msg.pc = "idle"
    /\ \/ f = NoFile /\ ~isRebuilding[p] /\ originalIR[p] = 0
       \/ f = "missing"
    /\ hist' = [ hist EXCEPT !.lastRet = "false", !.skipped = FALSE ]
    /\ UNCHANGED << convolution, trashBin, trashBinLock, obj, audio, worker, activeLoader,
                    msgQ, msg, isLoading, isRebuilding, originalIR,
                    currentSpec, param, ing, rt, eng, cep >>

\* loadImpulseResponse, accepted: flags, activeLoader.reset() (signal the old thread and
\* wait for it), then the new thread when the old one is already gone
AcceptLoad(p, f, s, mp) ==
    /\ FreshReqs # {}
    /\ isRebuilding' = IF f = NoFile THEN [ isRebuilding EXCEPT ![p] = TRUE ]
                       ELSE isRebuilding
    /\ isLoading' = [ isLoading EXCEPT ![p] = TRUE ]
    /\ IF OldLoaderStopped(p)
       THEN /\ StartLoaderAt(worker, p, f, s, mp)
            /\ msg' = msg
       ELSE /\ worker' = [ worker EXCEPT ![activeLoader[p]].exit = TRUE,
                                        ![activeLoader[p]].early =
                                            BeforeLastCheck(worker[activeLoader[p]]) ]
            /\ msg' = [ IdleMsg EXCEPT !.pc = "joining", !.proc = p, !.file = f ]
            /\ activeLoader' = activeLoader

\* loadImpulseResponse called with a file, or with juce::File() for a rebuild
LoadAccept(p, f) ==
    /\ msg.pc = "idle"
    /\ f # "missing"
    /\ f = NoFile => ~isRebuilding[p] /\ originalIR[p] # 0
    /\ AcceptLoad(p, f, currentSpec[p], param[p].useMinPhase)
    /\ hist' = [ hist EXCEPT
                   !.superseded = IF Incomplete(activeLoader[p])
                                  THEN @ \cup { activeLoader[p] } ELSE @,
                   !.lastRet = "true", !.skipped = FALSE ]
    /\ UNCHANGED << convolution, trashBin, trashBinLock, obj, audio, msgQ, originalIR,
                    currentSpec, param, ing, rt, eng, cep >>

\* stopThread(4000): the old thread has ended within the wait
LoadJoin ==
    /\ msg.pc = "joining"
    /\ OldLoaderStopped(msg.proc)
    /\ StartLoader(worker, msg.proc, msg.file)
    /\ msg' = IdleMsg
    /\ UNCHANGED << convolution, trashBin, trashBinLock, obj, audio, msgQ, isLoading,
                    isRebuilding, originalIR, hist, currentSpec, param, ing, rt, eng, cep >>

\* stopThread(4000): the wait has run out and the old thread is killed where it stands
JoinTimeout ==
    /\ msg.pc = "joining"
    /\ Running(activeLoader[msg.proc])
    /\ worker' = [ worker EXCEPT ![activeLoader[msg.proc]] =
                                     Ended(activeLoader[msg.proc], "killed", "cancelled") ]
    /\ UNCHANGED << convolution, trashBin, trashBinLock, obj, audio, activeLoader, msgQ,
                    msg, isLoading, isRebuilding, originalIR, hist,
                    currentSpec, param, ing, rt, eng, cep >>

\* the lambda FlagResetter posted
DeliverReset ==
    /\ msg.pc = "idle"
    /\ msgQ # << >>
    /\ Head(msgQ).type = "reset"
    /\ isLoading'    = [ isLoading EXCEPT ![Head(msgQ).proc] = FALSE ]
    /\ isRebuilding' = [ isRebuilding EXCEPT ![Head(msgQ).proc] = FALSE ]
    /\ msgQ' = Tail(msgQ)
    /\ hist' = [ hist EXCEPT !.skipped = FALSE ]
    /\ UNCHANGED << convolution, trashBin, trashBinLock, obj, audio, worker, activeLoader,
                    msg, originalIR, currentSpec, param, ing, rt, eng, cep >>

\* applyNewState up to trashBin.push_back: the asset, convolution.exchange(newConv),
\* and, when there was a state, trashBinLock taken and the old state pushed
ApplyExchange ==
    /\ msg.pc = "idle"
    /\ msgQ # << >>
    /\ Head(msgQ).type = "apply"
    /\ LET m   == Head(msgQ)
           p   == m.proc
           old == convolution[p]
       IN  /\ originalIR'  = IF m.rebuild THEN originalIR
                             ELSE [ originalIR EXCEPT ![p] = m.req ]
           /\ convolution' = [ convolution EXCEPT ![p] = m.obj ]
           /\ obj'         = [ Inc(obj, m.obj) EXCEPT ![m.obj].pub = TRUE ]
           /\ trashBin'    = IF old = 0 THEN trashBin
                             ELSE [ trashBin EXCEPT ![p] = Append(@, old) ]
           /\ trashBinLock' = IF old = 0 THEN trashBinLock
                              ELSE [ trashBinLock EXCEPT ![p] = "message" ]
           /\ msg'  = [ IdleMsg EXCEPT !.pc = "retire", !.proc = p, !.old = old,
                                       !.new = m.obj, !.req = m.req ]
           /\ hist' = [ hist EXCEPT !.published = Append(@, m.req) ]
    /\ msgQ' = Tail(msgQ)
    /\ UNCHANGED << audio, worker, activeLoader, isLoading, isRebuilding, currentSpec, param, ing, rt, eng, cep >>

\* mutant: the sweep empties the queue whatever the counts
SweepVictimsAll(p) == Range(trashBin[p])

\* the entries trashBin.erase(remove_if(... use_count() == 1)) removes
SweepVictims(p) == { e \in Range(trashBin[p]) : obj[e].rc = 1 }

\* applyNewState from the erase on: the sweep under the lock, the flags, the change
\* message; the lambda and its captured newConv are destroyed afterwards
ApplyRetire ==
    /\ msg.pc = "retire"
    /\ LET p      == msg.proc
           erased == IF msg.old = 0 THEN {} ELSE SweepVictims(p)
           swept  == [ o \in Objs |-> IF o \in erased THEN Dec(obj, o, "sweep")[o]
                                      ELSE obj[o] ]
       IN  /\ trashBin'     = [ trashBin EXCEPT
                                  ![p] = SelectSeq2(@, Range(@) \ erased) ]
           /\ trashBinLock' = [ trashBinLock EXCEPT ![p] = "free" ]
           /\ obj'          = Dec(swept, msg.new, "message")
           /\ isLoading'    = [ isLoading EXCEPT ![p] = FALSE ]
           /\ isRebuilding' = [ isRebuilding EXCEPT ![p] = FALSE ]
           /\ hist'         = [ hist EXCEPT !.notified = @ \cup { msg.req },
                                             !.skipped = FALSE ]
    /\ msg' = IdleMsg
    /\ UNCHANGED << convolution, audio, worker, activeLoader, msgQ, originalIR, currentSpec, param, ing, rt, eng, cep >>

\* syncStateFrom(other): the parameters, the cached asset and a deep copy of other's
\* state, stored into the slot with convolution.store
CopyStateFrom(p, q) ==
    /\ param' = [ param EXCEPT ![p] = param[q] ]
    /\ originalIR' = [ originalIR EXCEPT ![p] = originalIR[q] ]
    /\ IF convolution[q] # 0
       THEN /\ FreshObjs # {}
            /\ obj' = Dec([ obj EXCEPT ![NextObj] =
                              [ NoObj EXCEPT !.st = "complete", !.rc = 1, !.pub = TRUE,
                                             !.req = obj[convolution[q]].req ] ],
                          convolution[p], "message")
            /\ convolution' = [ convolution EXCEPT ![p] = NextObj ]
       ELSE /\ obj' = Dec(obj, convolution[p], "message")
            /\ convolution' = [ convolution EXCEPT ![p] = 0 ]

\* AudioEngine::requestRebuild after a change of a parameter: the new DSPCore's
\* convolver.syncStateFrom(uiConvolverProcessor)
SyncStateFrom(p, q) ==
    /\ msg.pc = "idle"
    /\ CopyStateFrom(p, q)
    /\ UNCHANGED << trashBin, trashBinLock, audio, worker, activeLoader, msgQ, msg,
                    isLoading, isRebuilding, hist, currentSpec, ing, rt, eng, cep >>

\* AudioEngine::prepareToPlay(samplesPerBlockExpected, sampleRate) with configuration
\* s: uiConvolverProcessor.prepareToPlay sets currentSpec; when the rate or the block
\* size differs from the last one, rebuildAllIRs, which calls
\* loadImpulseResponse(juce::File()) if (isIRLoaded() && !isLoading.load());
\* then requestRebuild: a DSPCore prepared for s whose convolver copies the UI state
PrepareToPlay(s) ==
    /\ msg.pc = "idle"
    /\ currentSpec' = [ p \in Procs |-> s ]
    /\ LET changed == s # currentSpec["ui"]
           rebuild == changed /\ convolution["ui"] # 0 /\ ~isLoading["ui"]
           loaded  == IF convolution["ui"] # 0 THEN "loaded" ELSE "unloaded"
       IN  IF rebuild /\ ~isRebuilding["ui"] /\ originalIR["ui"] # 0
           THEN /\ AcceptLoad("ui", NoFile, s, param["ui"].useMinPhase)
                /\ hist' = [ hist EXCEPT
                               !.superseded = IF Incomplete(activeLoader["ui"])
                                              THEN @ \cup { activeLoader["ui"] } ELSE @,
                               !.lastChange = loaded ]
           ELSE /\ hist' = [ hist EXCEPT
                               !.lastChange = IF changed THEN loaded ELSE @ ]
                /\ UNCHANGED << worker, activeLoader, msg, isLoading, isRebuilding >>
    /\ CopyStateFrom("dsp", "ui")
    /\ UNCHANGED << trashBin, trashBinLock, audio, msgQ, ing, rt, eng, cep >>

\* syncParametersFrom(other), with the parameters of `other` as given: the parameters
\* stored, then compare_exchange_strong of the slot to other's state when they differ
ShareStateFrom(p, q, values) ==
    /\ param' = [ param EXCEPT ![q] = values, ![p] = values ]
    /\ convolution' = [ convolution EXCEPT ![p] = convolution[q] ]
    /\ obj' = IF convolution[q] = convolution[p] THEN obj
              ELSE Dec(IF convolution[q] = 0 THEN obj
                       ELSE [ Inc(obj, convolution[q]) EXCEPT ![convolution[q]].pub = TRUE ],
                       convolution[p], "message")

\* Listener::convolverParamsChanged after a change that starts no rebuild (mix, bypass,
\* smoothing time): currentDSP's convolver.syncParametersFrom(uiConvolverProcessor)
SyncParametersFrom(p, q) ==
    /\ msg.pc = "idle"
    /\ convolution[q] # convolution[p]
    /\ ShareStateFrom(p, q, param[q])
    /\ UNCHANGED << trashBin, trashBinLock, audio, worker, activeLoader, msgQ, msg,
                    isLoading, isRebuilding, originalIR, hist,
                    currentSpec, ing, rt, eng, cep >>

\* setUseMinPhase / setTargetIRLength on processor p with the new values: the store,
\* listeners.call(convolverParamsChanged), and if (isIRLoaded())
\* loadImpulseResponse(juce::File()): skipped while isRebuilding is set, else the
\* rebuild is started
SetParameter(p, values) ==
    /\ msg.pc = "idle"
    /\ values # param[p]
    /\ ShareStateFrom("dsp", p, values)
    /\ IF convolution[p] # 0 /\ ~isRebuilding[p] /\ originalIR[p] # 0
       THEN /\ AcceptLoad(p, NoFile, currentSpec[p], values.useMinPhase)
            /\ hist' = [ hist EXCEPT
                           !.superseded = IF Incomplete(activeLoader[p])
                                          THEN @ \cup { activeLoader[p] } ELSE @,
                           !.lastRet = "true", !.skipped = FALSE ]
       ELSE /\ hist' = [ hist EXCEPT !.lastRet = IF convolution[p] = 0 THEN @
                                                 ELSE IF isRebuilding[p] THEN "true"
                                                 ELSE "false",
                                     !.skipped = IF convolution[p] = 0 THEN @
                                                 ELSE isRebuilding[p],
                                     !.setUnloaded = @ \/ convolution[p] = 0 ]
            /\ UNCHANGED << worker, activeLoader, msg, isLoading, isRebuilding >>
    /\ UNCHANGED << trashBin, trashBinLock, audio, msgQ, originalIR, currentSpec,
                    ing, rt, eng, cep >>

MessageStep ==
    \/ \E p \in LoadProcs : LoadSkip(p)
    \/ \E p \in LoadProcs, f \in FileKinds \cup { NoFile } : LoadReject(p, f)
    \/ \E p \in LoadProcs, f \in FileKinds \cup { NoFile } : LoadAccept(p, f)
    \/ LoadJoin
    \/ JoinTimeout
    \/ DeliverReset
    \/ ApplyExchange
    \/ ApplyRetire
    \/ SyncStateFrom("dsp", "ui")
    \/ SyncParametersFrom("dsp", "ui")

\* ------------------------------------------------------------------ specification
Next == AudioStep \/ LoaderStep \/ MessageStep

Spec == Init /\ [][Next]_vars

\* ------------------------------------------------------------------ device changes
\* the audio device is (re)started with a configuration of its own choosing
DeviceStep == \E s \in DeviceSpecs : PrepareToPlay(s)

NextDevice == AudioStep \/ LoaderStep \/ MessageStep \/ DeviceStep

SpecDevice == Init /\ [][NextDevice]_vars

\* ------------------------------------------------------------------ parameter changes
\* IR_LENGTH_DEFAULT_SEC and IR_LENGTH_MAX_SEC in tenths of a second
TargetLengths == { 10, 30 }

\* one setter call changes one of the two parameters
ParamStep ==
    \E p \in LoadProcs :
        \/ \E b \in BOOLEAN : SetParameter(p, [ param[p] EXCEPT !.useMinPhase = b ])
        \/ \E t \in TargetLengths :
              SetParameter(p, [ param[p] EXCEPT !.targetIRLengthSec = t ])

NextParams == AudioStep \/ LoaderStep \/ MessageStep \/ ParamStep

SpecParams == Init /\ [][NextParams]_vars

\* ------------------------------------------------------------------ periodic reclamation
\* mutant: the periodic scan looks at the queue and releases nothing
CleanupKeepsAll(p) ==
    /\ trashBinLock[p] = "free"
    /\ trashBin' = trashBin
    /\ obj' = obj

\* ConvolverProcessor::cleanup(): the queue is scanned under its lock and every entry
\* held by the queue alone is released; the others stay for a later scan
Cleanup(p) ==
    /\ trashBinLock[p] = "free"
    /\ trashBin' = [ trashBin EXCEPT ![p] = SelectSeq2(@, Range(@) \ SweepVictims(p)) ]
    /\ obj' = [ o \in Objs |-> IF o \in SweepVictims(p) THEN Dec(obj, o, "timer")[o]
                               ELSE obj[o] ]

\* AudioEngine::timerCallback on the message thread: cleanup of the convolver the
\* audio thread uses, and of the UI's convolver
TimerCallback ==
    /\ msg.pc = "idle"
    /\ \E p \in Procs : Cleanup(p)
    /\ UNCHANGED << convolution, trashBinLock, audio, worker, activeLoader, msgQ, msg,
                    isLoading, isRebuilding, originalIR, hist, currentSpec, param,
                    ing, rt, eng, cep >>

\* the handlers the message loop runs by itself once they are due
MessageLoop == LoadJoin \/ JoinTimeout \/ DeliverReset \/ ApplyExchange \/ ApplyRetire

NextSweep == AudioStep \/ LoaderStep \/ MessageStep \/ TimerCallback

\* the message loop dispatches what is posted to it, and the timer keeps firing
SpecSweep ==
    /\ Init
    /\ [][NextSweep]_vars
    /\ WF_vars(MessageLoop)
    /\ WF_vars(TimerCallback)

\* ------------------------------------------------------------------ ingestion on sample data
\* One run of LoaderThread::run followed on its data, then applyNewState and one
\* process() call on what it published.  A buffer holds its length, per channel the
\* samples that are not zero as pairs << index, value >>, the divisor `div` that
\* makes a value a sample (sample = value / div) and the phase of its content.
MAX_IR_LATENCY        == 2097152
MAX_BLOCK_SIZE        == 524288
MAX_TOTAL_DELAY       == MAX_IR_LATENCY + MAX_BLOCK_SIZE
MAX_MINPHASE_FFT_SIZE == 2097152
MAX_FILE_LENGTH       == 2147483647     \* also the largest int
fade                  == 256

Abs(x)    == IF x < 0 THEN -x ELSE x
Min(a, b) == IF a < b THEN a ELSE b
Max(a, b) == IF a > b THEN a ELSE b
MaxOf(S)  == IF S = {} THEN 0 ELSE CHOOSE m \in S : \A x \in S : m >= x
MinOf(S)  == CHOOSE m \in S : \A x \in S : m <= x

\* juce::AudioBuffer<double>(): no channels, no samples
NoBuffer == [ len |-> 0, ch |-> << >>, div |-> 1, phase |-> "linear" ]

Entries(b) == UNION { b.ch[c] : c \in DOMAIN b.ch }

\* AudioBuffer::getMagnitude(ch, 0, n), as a value
getMagnitude(b, c) == MaxOf({ Abs(e[2]) : e \in b.ch[c] })

\* the largest magnitude over the channels, as a value
MaxMagnitude(b) == MaxOf({ Abs(e[2]) : e \in Entries(b) })

RECURSIVE NextPow2(_, _)
NextPow2(n, p) == IF p >= n THEN p ELSE NextPow2(n, 2 * p)

\* juce::nextPowerOfTwo
nextPowerOfTwo(n) == NextPow2(n, 1)

RECURSIVE GCD(_, _)
GCD(a, b) == IF b = 0 THEN a ELSE GCD(b, a % b)

\* a count that does not fit an int
TooBig == -1

\* floor(n * targetSR / inputSR), or TooBig; computed on the reduced ratio so that
\* no intermediate value leaves the integers at hand
Scale(n, inputSR, targetSR) ==
    LET g   == GCD(targetSR, inputSR)
        num == targetSR \div g
        den == inputSR \div g
        q   == n \div den
        rn  == ((n % den) * num) \div den
    IN  IF q > (MAX_FILE_LENGTH - rn) \div num THEN TooBig ELSE q * num + rn

\* the sample count the rate change yields
ResampledCount(b, inputSR, targetSR) == Scale(b.len, inputSR, targetSR)

\* inLength * ratio + 2.0 is beyond the largest int
Oversize(b, inputSR, targetSR) ==
    \/ ResampledCount(b, inputSR, targetSR) = TooBig
    \/ ResampledCount(b, inputSR, targetSR) > MAX_FILE_LENGTH - 2

\* resampleIR: int maxOutLen = static_cast<int>(inLength * ratio + 2.0).  A value
\* that does not fit an int makes the conversion undefined: the builds give the
\* largest int (saturating conversion) or the smallest (x86 cvttsd2si).
MaxOutLens(b, inputSR, targetSR) ==
    IF Oversize(b, inputSR, targetSR) THEN { MAX_FILE_LENGTH, -MAX_FILE_LENGTH - 1 }
    ELSE { ResampledCount(b, inputSR, targetSR) + 2 }

\* resampleIR: the resampler's output copied into a buffer of maxOutLen samples, which
\* is then cut to the count produced; the samples move to their place at the new rate
resampleIR(b, inputSR, targetSR, maxOutLen) ==
    LET count       == ResampledCount(b, inputSR, targetSR)
        finalLength == IF maxOutLen <= 0 THEN 0
                       ELSE IF count = TooBig THEN maxOutLen ELSE Min(maxOutLen, count)
        At(i)       == Scale(i, inputSR, targetSR)
    IN  [ b EXCEPT !.len = finalLength,
                   !.ch  = [ c \in DOMAIN b.ch |->
                               { << At(e[1]), e[2] >> :
                                   e \in { x \in b.ch[c] : /\ At(x[1]) # TooBig
                                                            /\ At(x[1]) < finalLength } } ] ]

\* run(), 1.6: the trailing samples not above 1e-15 are cut, one sample is kept
TrimSilence(b) ==
    LET newLength == MaxOf({ e[1] + 1 : e \in Entries(b) })
    IN  IF newLength < b.len THEN [ b EXCEPT !.len = Max(1, newLength) ] ELSE b

\* run(), 2: loadedIR.applyGain(1.0 / maxMagnitude)
Normalise(b) ==
    IF MaxMagnitude(b) > 0 THEN [ b EXCEPT !.div = MaxMagnitude(b) ] ELSE b

\* mutant: the source's length decides the kernel's length
computeTargetIRLengthOfSource(sampleRate, secTenths, originalLength) ==
    Min(originalLength, MAX_IR_LATENCY)

\* computeTargetIRLength: static_cast<int>(sampleRate * targetIRTimeSec), capped;
\* the seconds are held in tenths
computeTargetIRLength(sampleRate, secTenths, originalLength) ==
    Min((sampleRate * secTenths) \div 10, MAX_IR_LATENCY)

\* run(), 3: a cleared buffer of targetLength samples, the first copySamples samples
\* of loadedIR copied in, the last `fade` of them under a gain ramp from 1 to 0
Trim(b, targetLength) ==
    LET copySamples == Min(targetLength, b.len)
        start       == copySamples - fade
        Ramp(e)     == IF copySamples > fade /\ e[1] >= start
                       THEN << e[1], (e[2] * (fade - (e[1] - start))) \div fade >>
                       ELSE e
    IN  [ b EXCEPT !.len = targetLength,
                   !.ch  = [ c \in DOMAIN b.ch |->
                               { Ramp(e) : e \in { x \in b.ch[c] : x[1] < copySamples } } ] ]

\* convertToMinimumPhase, the size cap: the transform is skipped, an empty buffer
\* comes back
MinPhaseSkipped(b) == nextPowerOfTwo(b.len * 4) > MAX_MINPHASE_FFT_SIZE

\* convertToMinimumPhase, what run() reads of a result: a buffer of the same length
\* and channels, each channel with its energy at the front or (a degenerate result)
\* without any
MinPhaseResults(b) ==
    { [ b EXCEPT !.phase = "minimum",
                 !.ch = [ c \in DOMAIN b.ch |->
                            IF c \in silent \/ getMagnitude(b, c) = 0 THEN {}
                            ELSE { << 0, getMagnitude(b, c) >> } ] ] :
        silent \in SUBSET DOMAIN b.ch }

\* mutant: a result is taken whenever it has samples
MinPhaseUsableAnyLevel(r) == r.len > 0

\* run(), 4: the result is taken when it has samples and channel 0 is above 1e-5
MinPhaseUsable(r) == r.len > 0 /\ getMagnitude(r, 1) > 0

\* run(), the peak scan: skipped when minimum phase was requested; else channel by
\* channel, sample by sample, a strictly larger magnitude moves the index
PeakLatency(b, useMinPhase) ==
    IF useMinPhase \/ MaxMagnitude(b) = 0 THEN 0
    ELSE LET c == MinOf({ k \in DOMAIN b.ch : getMagnitude(b, k) = MaxMagnitude(b) })
         IN  MinOf({ e[1] : e \in { x \in b.ch[c] : Abs(x[2]) = MaxMagnitude(b) } })

\* no StereoConvolver
NoConv == [ blockSize |-> 0, irLen |-> 0, ir |-> NoBuffer, irLatency |-> 0, latency |-> 0 ]

\* StereoConvolver::init(blockSize, irL, irR, targetLength, irPeakLatency); irR is
\* channel 0 again for a mono kernel
StereoConvolverInit(blockSize, b, targetLength, peakDelay) ==
    [ blockSize |-> blockSize, irLen |-> targetLength,
      ir        |-> [ b EXCEPT !.ch = << b.ch[1], IF Len(b.ch) > 1 THEN b.ch[2]
                                                  ELSE b.ch[1] >> ],
      irLatency |-> peakDelay, latency |-> blockSize ]

\* mutant: the sum is not held to the delay line's size
TotalLatencyUnbounded(conv) == conv.latency + conv.irLatency

\* process(): (std::min)(conv->latency + conv->irLatency, MAX_TOTAL_DELAY)
TotalLatency(conv) == Min(conv.latency + conv.irLatency, MAX_TOTAL_DELAY)

WAVEFORM_POINTS == 512

\* createWaveformSnapshot: 512 points, each the peak over all channels of
\* samplesPerPoint = max(1, numSamples / WAVEFORM_POINTS) samples from
\* i * samplesPerPoint on, divided by the largest point when that is above 0.  Held
\* as the points that are not 0.0f, each << index, peak, maxAbs >> for the value
\* peak / maxAbs (the conversion to float keeps the order of the magnitudes and the
\* largest point equal to maxAbs).
createWaveformSnapshot(b) ==
    IF b.len <= 0 \/ Len(b.ch) <= 0 THEN {}
    ELSE LET samplesPerPoint == Max(1, b.len \div WAVEFORM_POINTS)
             Read(i)  == { e \in Entries(b) :
                             /\ e[1] >= i * samplesPerPoint
                             /\ e[1] < Min(b.len, i * samplesPerPoint + samplesPerPoint) }
             peak(i)  == MaxOf({ Abs(e[2]) : e \in Read(i) })
             points   == { e[1] \div samplesPerPoint : e \in Entries(b) }
                             \cap (0 .. WAVEFORM_POINTS - 1)
             maxAbs   == MaxOf({ peak(i) : i \in points })
         IN  { << i, peak(i), maxAbs >> : i \in { x \in points : peak(x) > 0 } }

\* ---- the inputs of a run
Mono(len, s)      == [ NoBuffer EXCEPT !.len = len, !.ch = << s >>, !.div = fade ]
Stereo(len, l, r) == [ NoBuffer EXCEPT !.len = len, !.ch = << l, r >>, !.div = fade ]

NoSource == [ name |-> "none", kind |-> "none", rate |-> 0, data |-> NoBuffer ]

\* what the AudioFormatReader gives for the files a load is tried on
Files ==
    { [ name |-> "short", kind |-> "ok", rate |-> 48000,
        data |-> Mono(9600, { << 0, 512 >>, << 4000, 256 >> }) ],
      [ name |-> "stereo", kind |-> "ok", rate |-> 44100,
        data |-> Stereo(60000, { << 10, 256 >>, << 59999, 256 >> }, { << 300, -768 >> }) ],
      [ name |-> "tie", kind |-> "ok", rate |-> 48000,
        data |-> Stereo(30000, { << 300, 512 >> }, { << 10, -512 >>, << 29999, 256 >> }) ],
      [ name |-> "long", kind |-> "ok", rate |-> 48000,
        data |-> Mono(4000000, { << 5, 256 >>, << 23900, 1024 >>, << 3999999, 256 >> }) ],
      [ name |-> "late", kind |-> "ok", rate |-> 48000,
        data |-> Mono(30000, { << 23600, 512 >>, << 29999, 256 >> }) ],
      [ name |-> "huge", kind |-> "ok", rate |-> 44100,
        data |-> Mono(2000000000, { << 0, 256 >>, << 1999999999, 256 >> }) ],
      [ name |-> "empty", kind |-> "ok", rate |-> 48000, data |-> Mono(0, {}) ],
      [ name |-> "toolong", kind |-> "toolong", rate |-> 48000, data |-> NoBuffer ],
      [ name |-> "noreader", kind |-> "noreader", rate |-> 0, data |-> NoBuffer ],
      [ name |-> "missing", kind |-> "missing", rate |-> 0, data |-> NoBuffer ] }

\* currentSpec.sampleRate and currentSpec.maximumBlockSize of a processor (a DSPCore's
\* convolver runs at the oversampled rate and block size); prepareToPlay stores the
\* block size it is given as it is
Rates      == { 48000, 768000 }
BlockSizes == { 512, 4194304 }
\* targetIRLengthSec in tenths of a second: IR_LENGTH_MIN_SEC, IR_LENGTH_MAX_SEC
Seconds    == { 5, 30 }

\* the asset an earlier load of the file left: originalIR, originalIRSampleRate and
\* the file's name
AssetOf(f) == [ ir |-> Normalise(TrimSilence(f.data)), rate |-> f.rate, name |-> f.name ]
NoAsset    == [ ir |-> NoBuffer, rate |-> 0, name |-> "none" ]
Assets     == { AssetOf(f) : f \in { x \in Files : x.name \in { "short", "long" } } }

\* a LoaderThread as loadImpulseResponse constructs it, and its processor
IngestRun(f, asset, sr, bs, mp, sec) ==
    [ pc |-> "acquire", out |-> "none", exit |-> FALSE,
      isRebuild |-> (f = NoSource), file |-> f,
      sourceIR |-> asset.ir, sourceSampleRate |-> asset.rate,
      sampleRate |-> sr, blockSize |-> bs, useMinPhase |-> mp, sec |-> sec,
      loadedIR |-> NoBuffer, loadedSR |-> 0, resAlloc |-> 0, oversize |-> FALSE,
      targetLength |-> 0, trimmed |-> NoBuffer, mp |-> "none", minPhaseIR |-> NoBuffer,
      irPeakLatency |-> 0,
      newConv |-> NoConv, posted |-> FALSE,
      originalIR |-> asset.ir, originalIRSampleRate |-> asset.rate,
      currentIrFile |-> asset.name, conv |-> NoConv, irLength |-> 0,
      irWaveform |-> {}, currentLatency |-> 0 ]

IngestStart ==
    { IngestRun(f, NoAsset, sr, bs, mp, sec) :
        f \in Files, sr \in Rates, bs \in BlockSizes, mp \in BOOLEAN, sec \in Seconds }
    \cup
    { IngestRun(NoSource, a, sr, bs, mp, sec) :
        a \in Assets, sr \in Rates, bs \in BlockSizes, mp \in BOOLEAN, sec \in Seconds }

InitIngest == InitProc /\ ing \in IngestStart /\ Idle

\* ---- the steps of the run
\* run() returns without posting
IngestEnd(why) == [ ing EXCEPT !.pc = "ended", !.out = why ]

\* run(), 1: the cached asset, or the file read through its reader
IAcquire ==
    /\ ing.pc = "acquire"
    /\ ing' = IF ing.isRebuild
              THEN [ ing EXCEPT !.pc = "resample", !.loadedIR = ing.sourceIR,
                                !.loadedSR = ing.sourceSampleRate ]
              ELSE IF ing.file.kind # "ok" THEN IngestEnd("aborted")
              ELSE [ ing EXCEPT !.pc = "resample", !.loadedIR = ing.file.data,
                                !.loadedSR = ing.file.rate ]
    /\ UNCHANGED << procVars, rt, eng, cep >>

\* run(): if (threadShouldExit() || loadedIR.getNumSamples() == 0) return; then 1.5,
\* the resampling when the rates differ by more than 1
IResample ==
    /\ ing.pc = "resample"
    /\ IF ing.exit THEN ing' = IngestEnd("cancelled")
       ELSE IF ing.loadedIR.len = 0 THEN ing' = IngestEnd("aborted")
       ELSE IF Abs(ing.loadedSR - ing.sampleRate) > 1
       THEN \E maxOutLen \in MaxOutLens(ing.loadedIR, ing.loadedSR, ing.sampleRate) :
              LET resampled == resampleIR(ing.loadedIR, ing.loadedSR, ing.sampleRate,
                                          maxOutLen)
                  seen == [ ing EXCEPT !.resAlloc = maxOutLen,
                                       !.oversize = Oversize(ing.loadedIR, ing.loadedSR,
                                                             ing.sampleRate) ]
              IN  ing' = IF resampled.len = 0
                         THEN [ seen EXCEPT !.pc = "ended", !.out = "aborted" ]
                         ELSE [ seen EXCEPT !.pc = "silence", !.loadedIR = resampled,
                                            !.loadedSR = ing.sampleRate ]
       ELSE ing' = [ ing EXCEPT !.pc = "silence" ]
    /\ UNCHANGED << procVars, rt, eng, cep >>

\* run(), 1.6 and 2: trailing silence cut; peak normalisation on a file load
ISilence ==
    /\ ing.pc = "silence"
    /\ ing' = [ ing EXCEPT !.pc = "target",
                           !.loadedIR = IF ing.isRebuild THEN TrimSilence(@)
                                        ELSE Normalise(TrimSilence(@)) ]
    /\ UNCHANGED << procVars, rt, eng, cep >>

\* run(): if (threadShouldExit()) return; then 3, the target length and the cut
ITarget ==
    /\ ing.pc = "target"
    /\ ing' = IF ing.exit THEN IngestEnd("cancelled")
              ELSE LET targetLength == computeTargetIRLength(ing.sampleRate, ing.sec,
                                                             ing.loadedIR.len)
                   IN  [ ing EXCEPT !.pc = "minphase", !.targetLength = targetLength,
                                    !.trimmed = Trim(ing.loadedIR, targetLength) ]
    /\ UNCHANGED << procVars, rt, eng, cep >>

\* run(): if (threadShouldExit()) return; then 4, up to the transform's size cap
IMinPhaseStart ==
    /\ ing.pc = "minphase"
    /\ ing' = IF ing.exit THEN IngestEnd("cancelled")
              ELSE IF ~ing.useMinPhase THEN [ ing EXCEPT !.pc = "peak" ]
              ELSE IF MinPhaseSkipped(ing.trimmed)
                   THEN [ ing EXCEPT !.pc = "peak", !.mp = "skipped" ]
                   ELSE [ ing EXCEPT !.pc = "transform" ]
    /\ UNCHANGED << procVars, rt, eng, cep >>

\* convertToMinimumPhase, the per-channel work with its cancellation checks, and what
\* run() does with the result
IMinPhaseEnd ==
    /\ ing.pc = "transform"
    /\ IF ing.exit
       THEN ing' = [ IngestEnd("cancelled") EXCEPT !.mp = "cancelled" ]
       ELSE \E minPhaseIR \in MinPhaseResults(ing.trimmed) :
              ing' = IF MinPhaseUsable(minPhaseIR)
                     THEN [ ing EXCEPT !.pc = "peak", !.mp = "applied",
                                       !.minPhaseIR = minPhaseIR, !.trimmed = minPhaseIR ]
                     ELSE [ ing EXCEPT !.pc = "peak", !.mp = "silent",
                                       !.minPhaseIR = minPhaseIR ]
    /\ UNCHANGED << procVars, rt, eng, cep >>

\* run(): if (threadShouldExit()) return; then the peak scan and 5, the new
\* StereoConvolver
IBuild ==
    /\ ing.pc = "peak"
    /\ ing' = IF ing.exit THEN IngestEnd("cancelled")
              ELSE LET irPeakLatency == PeakLatency(ing.trimmed, ing.useMinPhase)
                   IN  [ ing EXCEPT !.pc = "post", !.irPeakLatency = irPeakLatency,
                                    !.newConv = StereoConvolverInit(ing.blockSize,
                                                    ing.trimmed, ing.targetLength,
                                                    irPeakLatency) ]
    /\ UNCHANGED << procVars, rt, eng, cep >>

\* run(): if (threadShouldExit()) return; then 6, callAsync(applyNewState)
IPost ==
    /\ ing.pc = "post"
    /\ ing' = IF ing.exit THEN IngestEnd("cancelled")
              ELSE [ ing EXCEPT !.pc = "apply", !.out = "posted", !.posted = TRUE ]
    /\ UNCHANGED << procVars, rt, eng, cep >>

\* mutant: the asset is replaced by whatever the loader worked on
AssetAfterAlways(isRebuild) ==
    [ ir |-> ing.loadedIR, rate |-> ing.loadedSR, name |-> ing.file.name ]

\* applyNewState: originalIR, originalIRSampleRate, currentIrFile and irName are set
\* on a file load only
AssetAfter(isRebuild) ==
    IF isRebuild
    THEN [ ir |-> ing.originalIR, rate |-> ing.originalIRSampleRate,
           name |-> ing.currentIrFile ]
    ELSE [ ir |-> ing.loadedIR, rate |-> ing.loadedSR, name |-> ing.file.name ]

\* applyNewState: the asset, the waveform snapshot of displayIR (the loader's trimmed
\* buffer), convolution.exchange(newConv), irLength
IApply ==
    /\ ing.pc = "apply"
    /\ ing' = [ ing EXCEPT !.pc = "process",
                           !.originalIR = AssetAfter(ing.isRebuild).ir,
                           !.originalIRSampleRate = AssetAfter(ing.isRebuild).rate,
                           !.currentIrFile = AssetAfter(ing.isRebuild).name,
                           !.irWaveform = createWaveformSnapshot(ing.trimmed),
                           !.conv = ing.newConv, !.irLength = ing.targetLength ]
    /\ UNCHANGED << procVars, rt, eng, cep >>

\* process(): delayLine.setDelay(totalLatency); currentLatency.store(totalLatency)
IProcess ==
    /\ ing.pc = "process"
    /\ ing' = [ ing EXCEPT !.pc = "done", !.currentLatency = TotalLatency(ing.conv) ]
    /\ UNCHANGED << procVars, rt, eng, cep >>

IngestRunning == ing.pc \in { "acquire", "resample", "silence", "target", "minphase",
                              "transform", "peak", "post" }

\* stopThread: signalThreadShouldExit() while run() is under way
ICancel ==
    /\ IngestRunning
    /\ ~ing.exit
    /\ ing' = [ ing EXCEPT !.exit = TRUE ]
    /\ UNCHANGED << procVars, rt, eng, cep >>

\* an allocation of run() throws std::bad_alloc, caught at the end of run()
IBadAlloc ==
    /\ IngestRunning
    /\ ing' = IngestEnd("badalloc")
    /\ UNCHANGED << procVars, rt, eng, cep >>

NextIngest ==
    \/ IAcquire
    \/ IResample
    \/ ISilence
    \/ ITarget
    \/ IMinPhaseStart
    \/ IMinPhaseEnd
    \/ IBuild
    \/ IPost
    \/ IApply
    \/ IProcess
    \/ ICancel
    \/ IBadAlloc

SpecIngest == InitIngest /\ [][NextIngest]_vars

\* ------------------------------------------------------------------ the audio callback
\* One DSPCore and its convolver as the audio thread sees them: DSPCore::process
\* calls ConvolverProcessor::process on the (oversampled) block unless the engine's
\* bypass is requested.  The block's samples are followed as a tag: "in" is the
\* block as it came in, untouched.
MaxCalls == 3                     \* callbacks followed

SAFE_MAX_BLOCK_SIZE == 8192
\* DSPCore::prepare at 48 kHz: factorLog2 = 2
OversamplingFactor  == 4
\* samplesPerBlock the DSPCore was prepared with; dryBuffer and convolutionBuffer
\* hold samplesPerBlock * oversamplingFactor samples
PreparedBlock == 512
\* mixSmoother's ramp at SMOOTHING_TIME_MIN_SEC and the processing rate, in samples
RampSteps == 1920
\* numSamples a callback may come with
BlockLengths == { 0, 256, 512, 1024, 8193 }
\* mixTarget in percent
Mixes == { 0, 50, 100 }

\* the kernels the slot may hold: linear phase with a peak offset, minimum phase
RtKernels ==
    { [ NoConv EXCEPT !.blockSize = 2048, !.irLen = 24000, !.latency = 2048,
                      !.irLatency = l ] : l \in { 0, 300 } }

\* juce::AudioSourceChannelInfo as a callback brings it, and whether a DSPCore was
\* published when it came
NoInfo == [ hasBuffer |-> FALSE, size |-> 0, startSample |-> 0, numSamples |-> 0,
            published |-> FALSE ]

RtStart(conv, prepared, bypassed) ==
    [ pc |-> "run", calls |-> 0,
      conv |-> conv, isPrepared |-> prepared, bypassed |-> bypassed,
      convBypassRequested |-> FALSE, mixTarget |-> 100,
      capacity |-> PreparedBlock * OversamplingFactor,
      delay |-> 0, currentLatency |-> 0, dry |-> 0, wet |-> << 0, 0 >>,
      smoother |-> [ target |-> 100, left |-> 0 ],
      deref |-> FALSE, out |-> "none",
      published |-> TRUE, maxSamplesPerBlock |-> PreparedBlock,
      processed |-> FALSE, info |-> NoInfo,
      last |-> [ n |-> 0, blockLen |-> 0, conv |-> NoConv, isPrepared |-> FALSE,
                 bypassed |-> FALSE, convBypassed |-> FALSE, mix |-> 100,
                 delay |-> 0, currentLatency |-> 0, dry |-> 0, wet |-> << 0, 0 >>,
                 smoother |-> [ target |-> 100, left |-> 0 ] ] ]

InitAudio ==
    /\ InitProc
    /\ ing = NoIngest /\ eng = NoEngine /\ cep = NoCepstrum
    /\ rt \in { RtStart(c, TRUE, b) : c \in RtKernels \cup { NoConv }, b \in BOOLEAN }

\* mutant: the delay line and currentLatency are set from the slot whatever it holds
LatencyRefreshUnguarded(r, conv) ==
    [ r EXCEPT !.delay = TotalLatency(conv), !.currentLatency = TotalLatency(conv),
               !.deref = TRUE ]

\* process(), Step 1: if (conv) { delayLine.setDelay(totalLatency);
\* currentLatency.store(totalLatency); }
LatencyRefresh(r, conv) ==
    IF conv # NoConv
    THEN [ r EXCEPT !.delay = TotalLatency(conv), !.currentLatency = TotalLatency(conv),
                    !.deref = TRUE ]
    ELSE r

\* mutant: the bypassed block is taken through the delay line
ReturnUntouchedViaDry(r, n) == [ r EXCEPT !.out = "dry", !.dry = @ + n ]

\* process(), Step 2 and Step 3: return; the block is left as it came in
ReturnUntouched(r, n) == [ r EXCEPT !.out = "in" ]

\* mutant: the convolvers run only when the wet signal is needed
WetAdvanceWhenNeeded(n, needsConvolution) == IF needsConvolution THEN n ELSE 0

\* process(), Step 6: conv->convolvers[ch].process(input, dst, numSamples) for both
\* channels, whatever the mix
WetAdvance(n, needsConvolution) == n

\* process(), Step 4: mixSmoother.setTargetValue when mixTarget has moved
SmootherRetarget(sm, mix) ==
    IF sm.target # mix THEN [ target |-> mix, left |-> RampSteps ] ELSE sm

\* ConvolverProcessor::process on a block of n samples in two channels
ConvolverProcess(r, n) ==
    LET conv == r.conv
        r1   == LatencyRefresh([ r EXCEPT !.deref = FALSE ], conv)
    IN  IF ~r.isPrepared \/ r.bypassed \/ conv = NoConv THEN ReturnUntouched(r1, n)
        ELSE IF n <= 0 \/ n > r.capacity THEN ReturnUntouched(r1, n)
        ELSE LET sm          == SmootherRetarget(r.smoother, r.mixTarget)
                 isSmoothing == sm.left > 0
                 needsConvolution == isSmoothing \/ r.mixTarget > 0
                 needsDrySignal   == isSmoothing \/ r.mixTarget < 100
                 w           == WetAdvance(n, needsConvolution)
             IN  [ r1 EXCEPT
                     !.dry = @ + n,
                     !.wet = << @[1] + w, @[2] + w >>,
                     !.smoother = IF isSmoothing
                                  THEN [ sm EXCEPT !.left = Max(0, @ - n) ] ELSE sm,
                     !.out = IF ~needsConvolution THEN "dry"
                             ELSE IF ~needsDrySignal THEN "wet" ELSE "mix" ]

\* DSPCore::process on numSamples samples with state.convBypassed as getNextAudioBlock
\* read it from convBypassRequested
CoreProcess(r, numSamples) ==
    IF numSamples > SAFE_MAX_BLOCK_SIZE THEN [ r EXCEPT !.out = "cleared", !.deref = FALSE ]
    ELSE IF ~r.convBypassRequested
         THEN ConvolverProcess(r, numSamples * OversamplingFactor)
         ELSE [ r EXCEPT !.out = "in", !.deref = FALSE ]

\* what a callback found when it came
Seen(r, numSamples) ==
    [ n |-> numSamples, blockLen |-> numSamples * OversamplingFactor, conv |-> r.conv,
      isPrepared |-> r.isPrepared, bypassed |-> r.bypassed,
      convBypassed |-> r.convBypassRequested, mix |-> r.mixTarget,
      delay |-> r.delay, currentLatency |-> r.currentLatency, dry |-> r.dry,
      wet |-> r.wet, smoother |-> r.smoother ]

\* one audio callback
Callback(numSamples) ==
    /\ rt.pc = "run"
    /\ rt.calls < MaxCalls
    /\ rt' = [ CoreProcess(rt, numSamples) EXCEPT !.calls = @ + 1,
                                                  !.last = Seen(rt, numSamples) ]
    /\ UNCHANGED << procVars, ing, eng, cep >>

\* ConvolverProcessor::setMix, carried to the DSPCore by syncParametersFrom
SetMix(m) ==
    /\ rt.pc = "run"
    /\ rt.mixTarget # m
    /\ rt' = [ rt EXCEPT !.mixTarget = m ]
    /\ UNCHANGED << procVars, ing, eng, cep >>

\* ConvolverProcessor::setBypass, carried to the DSPCore by syncParametersFrom
SetBypass(b) ==
    /\ rt.pc = "run"
    /\ rt.bypassed # b
    /\ rt' = [ rt EXCEPT !.bypassed = b ]
    /\ UNCHANGED << procVars, ing, eng, cep >>

\* AudioEngine::setConvolverBypassRequested
SetConvolverBypassRequested(b) ==
    /\ rt.pc = "run"
    /\ rt.convBypassRequested # b
    /\ rt' = [ rt EXCEPT !.convBypassRequested = b ]
    /\ UNCHANGED << procVars, ing, eng, cep >>

\* a kernel reaches the DSPCore's slot: syncParametersFrom's compare_exchange_strong
PublishKernel(k) ==
    /\ rt.pc = "run"
    /\ rt.conv # k
    /\ rt' = [ rt EXCEPT !.conv = k ]
    /\ UNCHANGED << procVars, ing, eng, cep >>

NextAudio ==
    \/ \E n \in BlockLengths : Callback(n)
    \/ \E m \in Mixes : SetMix(m)
    \/ \E b \in BOOLEAN : SetBypass(b)
    \/ \E b \in BOOLEAN : SetConvolverBypassRequested(b)
    \/ \E k \in RtKernels : PublishKernel(k)

SpecAudio == InitAudio /\ [][NextAudio]_vars

\* ------------------------------------------------------------------ the callback's guards
\* AudioEngine::getNextAudioBlock in front of DSPCore::process: the block is described
\* by numSamples, startSample and the buffer's length, all of type int
INT_MAX == 2147483647

\* the blocks a callback may come with: a buffer or none, buffer->getNumSamples(),
\* startSample and numSamples
BlockInfos ==
    { [ hasBuffer |-> b, size |-> z, startSample |-> st, numSamples |-> n,
        published |-> FALSE ] :
        b \in BOOLEAN, z \in { 512, 1024 }, st \in { -1, 0, 256, 768, INT_MAX },
        n \in { -1, 0, 256, 512, 513 } }

\* startSample < 0 || startSample + numSamples > buffer->getNumSamples(), reached with
\* numSamples >= 1: the int sum overflows when startSample > INT_MAX - numSamples, and
\* the comparison then has no defined outcome (it is false where the sum wraps)
StartSampleGuard(startSample, numSamples, size) ==
    IF startSample < 0 THEN { TRUE }
    ELSE IF numSamples > 0 /\ startSample > INT_MAX - numSamples THEN BOOLEAN
    ELSE { startSample + numSamples > size }

\* bufferToFill.clearActiveBufferRegion(); return;
ClearActiveBufferRegion(r) == [ r EXCEPT !.out = "cleared", !.deref = FALSE ]

\* one call of getNextAudioBlock
GetNextAudioBlock(i) ==
    /\ rt.pc = "run"
    /\ rt.calls < MaxCalls
    /\ \E refused \in StartSampleGuard(i.startSample, i.numSamples, i.size) :
          LET r == [ rt EXCEPT !.processed = FALSE, !.deref = FALSE ]
          IN  rt' = [ ( IF ~i.hasBuffer
                        THEN [ r EXCEPT !.out = "none" ]
                        ELSE IF i.numSamples <= 0 \/ i.numSamples > r.maxSamplesPerBlock
                        THEN ClearActiveBufferRegion(r)
                        ELSE IF refused
                        THEN ClearActiveBufferRegion(r)
                        ELSE IF r.published
                        THEN [ CoreProcess(r, i.numSamples) EXCEPT !.processed = TRUE ]
                        ELSE ClearActiveBufferRegion(r) )
                      EXCEPT !.calls = @ + 1,
                             !.last  = Seen(rt, i.numSamples),
                             !.info  = [ i EXCEPT !.published = rt.published ] ]
    /\ UNCHANGED << procVars, ing, eng, cep >>

\* commitNewDSP: currentDSP.store(newDSP)
PublishCore ==
    /\ rt.pc = "run"
    /\ ~rt.published
    /\ rt' = [ rt EXCEPT !.published = TRUE ]
    /\ UNCHANGED << procVars, ing, eng, cep >>

\* before prepareToPlay has committed the first DSPCore
InitBlock ==
    /\ InitProc
    /\ ing = NoIngest /\ eng = NoEngine /\ cep = NoCepstrum
    /\ rt \in { [ RtStart(c, TRUE, FALSE) EXCEPT !.published = FALSE ] : c \in RtKernels }

NextBlock ==
    \/ \E i \in BlockInfos : GetNextAudioBlock(i)
    \/ PublishCore
    \/ \E b \in BOOLEAN : SetConvolverBypassRequested(b)

SpecBlock == InitBlock /\ [][NextBlock]_vars

\* ------------------------------------------------------------------ the engine follows the UI
\* The kernel the UI's convolver publishes on its way to the audio thread: the change
\* message of applyNewState, changeListenerCallback, requestRebuild and commitNewDSP,
\* and the callback that loads currentDSP.  Kernels are numbered in the order the UI
\* publishes them; a DSPCore is followed as the kernel its convolver's state comes from.
MaxLoads == 3                     \* kernels the UI publishes

\* the engine after its constructor: requestRebuild(48000.0, SAFE_MAX_BLOCK_SIZE) has
\* committed a DSPCore without a kernel, currentSampleRate is 48000, no device runs
FollowStart ==
    [ pc |-> "follow", sampleRate |-> 48000, playing |-> FALSE,
      ui |-> 0, changePending |-> FALSE,
      core |-> [ kernel |-> 0, how |-> "copy" ],
      audio |-> [ pc |-> "idle", kernel |-> 0 ], used |-> 0 ]

InitFollow ==
    /\ InitProc
    /\ ing = NoIngest /\ rt = NoRealtime /\ cep = NoCepstrum
    /\ eng = FollowStart

\* applyNewState on the UI's convolver: convolution.exchange(newConv) and, at its end,
\* sendChangeMessage(), which is delivered once however often it was sent
UiPublish ==
    /\ eng.pc = "follow"
    /\ eng.ui < MaxLoads
    /\ eng' = [ eng EXCEPT !.ui = @ + 1, !.changePending = TRUE ]
    /\ UNCHANGED << procVars, ing, rt, cep >>

\* requestRebuild and commitNewDSP: a new DSPCore whose convolver has
\* syncStateFrom(uiConvolverProcessor), a deep copy of the UI's state; with
\* oversampling, the state of the current core taken over and the UI's state put in
\* its place by syncParametersFrom, or rebuildAllIRsSynchronous() on the copy; then
\* currentDSP.exchange(newDSP)
RequestRebuild(e, how) ==
    [ e EXCEPT !.core = [ kernel |-> e.ui, how |-> IF e.ui = 0 THEN "copy" ELSE how ] ]

\* mutant: the change message is taken and nothing is rebuilt
ChangeListenerIgnores ==
    /\ eng.pc = "follow"
    /\ eng.changePending
    /\ eng' = [ eng EXCEPT !.changePending = FALSE ]
    /\ UNCHANGED << procVars, ing, rt, cep >>

\* changeListenerCallback(&uiConvolverProcessor): if (sr <= 0.0) return;
\* requestRebuild(sr, maxSamplesPerBlock.load())
ChangeListenerCallback ==
    /\ eng.pc = "follow"
    /\ eng.changePending
    /\ \E how \in { "copy", "shared", "rebuilt" } :
          eng' = [ ( IF eng.sampleRate <= 0 THEN eng ELSE RequestRebuild(eng, how) )
                   EXCEPT !.changePending = FALSE ]
    /\ UNCHANGED << procVars, ing, rt, cep >>

\* convolverParamsChanged after setMix, setBypass or setSmoothingTime:
\* currentDSP's convolver.syncParametersFrom(uiConvolverProcessor) puts the UI's state
\* itself into the core's slot
ConvolverParamsChanged ==
    /\ eng.pc = "follow"
    /\ eng.ui # 0
    /\ eng.core # [ kernel |-> eng.ui, how |-> "shared" ]
    /\ eng' = [ eng EXCEPT !.core = [ kernel |-> eng.ui, how |-> "shared" ] ]
    /\ UNCHANGED << procVars, ing, rt, cep >>

\* AudioEngine::releaseResources: currentSampleRate.store(0.0); the device has stopped
\* calling back
ReleaseResources ==
    /\ eng.pc = "follow"
    /\ eng.playing
    /\ eng.audio.pc = "idle"
    /\ eng' = [ eng EXCEPT !.sampleRate = 0, !.playing = FALSE ]
    /\ UNCHANGED << procVars, ing, rt, cep >>

\* AudioEngine::prepareToPlay when the device starts: currentSampleRate.store, then
\* requestRebuild(safeSampleRate, bufferSize)
DeviceStart ==
    /\ eng.pc = "follow"
    /\ ~eng.playing
    /\ \E how \in { "copy", "shared", "rebuilt" } :
          eng' = [ RequestRebuild(eng, how) EXCEPT !.sampleRate = 48000,
                                                   !.playing = TRUE ]
    /\ UNCHANGED << procVars, ing, rt, cep >>

\* getNextAudioBlock: DSPCore::Ptr dsp = currentDSP.load(acquire)
CallbackBegin ==
    /\ eng.pc = "follow"
    /\ eng.playing
    /\ eng.audio.pc = "idle"
    /\ eng' = [ eng EXCEPT !.audio = [ pc |-> "process", kernel |-> eng.core.kernel ] ]
    /\ UNCHANGED << procVars, ing, rt, cep >>

\* getNextAudioBlock: dsp->process(...) on the core that was loaded, to its end
CallbackEnd ==
    /\ eng.pc = "follow"
    /\ eng.audio.pc = "process"
    /\ eng' = [ eng EXCEPT !.audio = [ pc |-> "idle", kernel |-> 0 ],
                           !.used = eng.audio.kernel ]
    /\ UNCHANGED << procVars, ing, rt, cep >>

NextFollow ==
    \/ UiPublish
    \/ ChangeListenerCallback
    \/ ConvolverParamsChanged
    \/ ReleaseResources
    \/ DeviceStart
    \/ CallbackBegin
    \/ CallbackEnd

\* the message loop delivers the change message; a device that runs keeps calling
\* back, and every callback returns
SpecFollow ==
    /\ InitFollow
    /\ [][NextFollow]_vars
    /\ WF_vars(ChangeListenerCallback)
    /\ WF_vars(CallbackBegin)
    /\ WF_vars(CallbackEnd)

\* ------------------------------------------------------------------ the DSPCore hand-off
\* AudioEngine.cpp: currentDSP holds a plain pointer whose reference is counted by
\* hand (incReferenceCount / decReferenceCount), the audio thread wraps the loaded
\* pointer in a DSPCore::Ptr, retired cores go through trashBinPending and trashBin.
\* (AudioEngine.h declares currentDSP as an atomic shared_ptr and has no
\* trashBinPending; the .cpp is followed.)
MaxCore == 22                     \* DSPCores ever created

Cores == 1 .. MaxCore
\* if (trashBin.size() > 20) DBG(...)
TrashSoftCap == 20

NoCore == [ st |-> "none", rc |-> 0, age |-> 0 ]

\* the engine after its constructor: requestRebuild(48000.0, SAFE_MAX_BLOCK_SIZE) has
\* committed the first DSPCore
EngineStart ==
    [ pc |-> "run", currentDSP |-> 1,
      core |-> [ c \in Cores |-> IF c = 1 THEN [ NoCore EXCEPT !.st = "live", !.rc = 1 ]
                                 ELSE NoCore ],
      trashBinPending |-> << >>, trashBin |-> << >>, toDelete |-> {},
      timer |-> "idle", diag |-> FALSE,
      audio |-> [ pc |-> "idle", dsp |-> 0 ], uaf |-> FALSE ]

InitEngine ==
    /\ InitProc
    /\ ing = NoIngest /\ rt = NoRealtime /\ cep = NoCepstrum
    /\ eng = EngineStart

FreshCores == { c \in Cores : eng.core[c].st = "none" }
NextCore   == CHOOSE c \in FreshCores : \A x \in FreshCores : c <= x

\* decReferenceCount: the object deletes itself at zero
Release(core, c) ==
    IF core[c].rc <= 1
    THEN [ core EXCEPT ![c] = [ NoCore EXCEPT !.st = "freed" ] ]
    ELSE [ core EXCEPT ![c].rc = @ - 1 ]

\* requestRebuild and commitNewDSP: new DSPCore(), incReferenceCount for the atomic,
\* currentDSP.exchange, the old core wrapped in a Ptr on trashBinPending and the
\* atomic's count given back; requestRebuild's own Ptr ends with the call
CommitNewDSP ==
    /\ eng.pc = "run"
    /\ eng.timer = "idle"
    /\ FreshCores # {}
    /\ LET new == NextCore
           old == eng.currentDSP
       IN  eng' = [ eng EXCEPT
                      !.core = [ @ EXCEPT ![new] = [ NoCore EXCEPT !.st = "live",
                                                                  !.rc = 1 ] ],
                      !.currentDSP = new,
                      !.trashBinPending = IF old = 0 THEN @ ELSE Append(@, old) ]
    /\ UNCHANGED << procVars, ing, rt, cep >>

\* mutant: over the cap the oldest entries are dropped as well
TimerVictimsCapped(e) ==
    { c \in Range(e.trashBin) : e.core[c].rc = 1 }
        \cup { e.trashBin[i] : i \in 1 .. (Len(e.trashBin) - TrashSoftCap) }

\* timerCallback, 1: remove_if(... getReferenceCount() == 1)
TimerVictims(e) == { c \in Range(e.trashBin) : e.core[c].rc = 1 }

\* timerCallback under trashBinLock: the entries only the bin holds move to toDelete,
\* trashBinPending is appended to trashBin and cleared, the size is compared with the
\* cap for the diagnostic
TimerSweep ==
    /\ eng.pc = "run"
    /\ eng.timer = "idle"
    /\ LET victims == TimerVictims(eng)
           rest    == SelectSeq2(eng.trashBin, Range(eng.trashBin) \ victims)
           bin     == rest \o eng.trashBinPending
       IN  eng' = [ eng EXCEPT
                      !.toDelete = victims,
                      !.trashBin = bin,
                      !.trashBinPending = << >>,
                      !.core = [ c \in Cores |->
                                   IF c \in Range(bin) /\ @[c].age < 2
                                   THEN [ @[c] EXCEPT !.age = @ + 1 ] ELSE @[c] ],
                      !.diag = Len(bin) > TrashSoftCap,
                      !.timer = "delete" ]
    /\ UNCHANGED << procVars, ing, rt, cep >>

RECURSIVE ReleaseAll(_, _)
ReleaseAll(core, cs) ==
    IF cs = {} THEN core
    ELSE LET c == CHOOSE x \in cs : TRUE
         IN  ReleaseAll(Release(core, c), cs \ { c })

\* timerCallback after the lock: toDelete.clear()
TimerDelete ==
    /\ eng.pc = "run"
    /\ eng.timer = "delete"
    /\ eng' = [ eng EXCEPT !.core = ReleaseAll(@, eng.toDelete),
                           !.toDelete = {}, !.timer = "idle" ]
    /\ UNCHANGED << procVars, ing, rt, cep >>

\* getNextAudioBlock: currentDSP.load(acquire), the plain pointer
EngineAudioLoad ==
    /\ eng.pc = "run"
    /\ eng.audio.pc = "idle"
    /\ eng' = [ eng EXCEPT !.audio = [ pc |-> IF eng.currentDSP = 0 THEN "idle"
                                              ELSE "loaded",
                                       dsp |-> eng.currentDSP ] ]
    /\ UNCHANGED << procVars, ing, rt, cep >>

\* getNextAudioBlock: DSPCore::Ptr dsp = ..., the Ptr's constructor counts itself in;
\* on a core that was deleted meanwhile this writes to freed memory
EngineAudioRef ==
    /\ eng.pc = "run"
    /\ eng.audio.pc = "loaded"
    /\ LET c == eng.audio.dsp
       IN  eng' = IF eng.core[c].st = "freed"
                  THEN [ eng EXCEPT !.uaf = TRUE, !.audio = [ pc |-> "idle", dsp |-> 0 ] ]
                  ELSE [ eng EXCEPT !.core = [ @ EXCEPT ![c].rc = @ + 1 ],
                                    !.audio = [ pc |-> "held", dsp |-> c ] ]
    /\ UNCHANGED << procVars, ing, rt, cep >>

\* getNextAudioBlock: dsp->process(...) has returned and the Ptr goes out of scope
EngineAudioReturn ==
    /\ eng.pc = "run"
    /\ eng.audio.pc = "held"
    /\ eng' = [ eng EXCEPT !.core = Release(@, eng.audio.dsp),
                           !.audio = [ pc |-> "idle", dsp |-> 0 ] ]
    /\ UNCHANGED << procVars, ing, rt, cep >>

NextEngine ==
    \/ CommitNewDSP
    \/ TimerSweep
    \/ TimerDelete
    \/ EngineAudioLoad
    \/ EngineAudioRef
    \/ EngineAudioReturn

SpecEngine == InitEngine /\ [][NextEngine]_vars

\* ------------------------------------------------------------------ the liftering step
\* convertToMinimumPhase, step 5, on the real cepstrum data[0 .. fftSize - 1]; the
\* transform size is a power of two, 4 at least (nextPowerOfTwo(numSamples * 4))
MaxFftLog == 3                    \* log2 of the largest transform size followed

RECURSIVE Pow2(_)
Pow2(k) == IF k = 0 THEN 1 ELSE 2 * Pow2(k - 1)

FftSizes == { Pow2(k) : k \in 2 .. MaxFftLog }

\* the cepstrum's samples
CepValues == { -1, 3 }

CepStart(fftSize, data) ==
    [ pc |-> "cepstrum", fftSize |-> fftSize, cepstrum |-> data, data |-> data ]

InitLifter ==
    /\ InitProc
    /\ ing = NoIngest /\ rt = NoRealtime /\ eng = NoEngine
    /\ \E n \in FftSizes : \E data \in [ 1 .. n -> CepValues ] : cep = CepStart(n, data)

\* mutant: the first loop runs up to and including fftSize / 2
LifterThroughNyquist(data) ==
    LET fftSize == Len(data)
        doubled == 1 .. (fftSize \div 2)
        zeroed  == (fftSize \div 2 + 1) .. (fftSize - 1)
    IN  [ k \in 1 .. fftSize |-> IF (k - 1) \in doubled THEN 2 * data[k]
                                 ELSE IF (k - 1) \in zeroed THEN 0 ELSE data[k] ]

\* for (i = 1; i < fftSize / 2; ++i) data[i] *= 2.0;
\* for (i = fftSize / 2 + 1; i < fftSize; ++i) data[i] = 0.0;
\* data[i] is the sequence's element i + 1
Lifter(data) ==
    LET fftSize == Len(data)
        doubled == 1 .. (fftSize \div 2 - 1)
        zeroed  == (fftSize \div 2 + 1) .. (fftSize - 1)
    IN  [ k \in 1 .. fftSize |-> IF (k - 1) \in doubled THEN 2 * data[k]
                                 ELSE IF (k - 1) \in zeroed THEN 0 ELSE data[k] ]

CepLifter ==
    /\ cep.pc = "cepstrum"
    /\ cep' = [ cep EXCEPT !.pc = "liftered", !.data = Lifter(@) ]
    /\ UNCHANGED << procVars, ing, rt, eng >>

NextLifter == CepLifter

SpecLifter == InitLifter /\ [][NextLifter]_vars

\* ------------------------------------------------------------------ claims
\* every owner of a counted reference, per kind
SlotRefs    == { convolution[p] : p \in Procs }
TrashRefs   == UNION { Range(trashBin[p]) : p \in Procs }
LoaderRefs  == { worker[r].obj : r \in Reqs }
MessageRefs == { msgQ[i].obj : i \in DOMAIN msgQ } \cup { msg.new }
AudioRefs   == { audio.conv }
HeldRefs    == (SlotRefs \cup TrashRefs \cup LoaderRefs \cup MessageRefs \cup AudioRefs) \ { 0 }

C2_LoadedStateComplete ==
    /\ audio.conv # 0 => obj[audio.conv].st = "complete"
    /\ \A p \in Procs : convolution[p] # 0 => obj[convolution[p]].st = "complete"

\* C2 witness: process() has loaded a state while a loader holds a half-built one.
C2_Witness ==
    /\ audio.pc = "loaded"
    /\ audio.conv # 0
    /\ \E r \in Reqs : worker[r].pc = "init" /\ obj[worker[r].obj].st = "alloc"

\* C3: a second load() issued before the first has completed leaves exactly one kernel
\* ever published, the latest request's: a request that was still incomplete when a
\* later one was accepted never has its kernel published.
C3_OnlyLatestPublished == \A r \in hist.superseded : r \notin Range(hist.published)

\* C4: at most one LoaderThread runs per processor at any instant, and the one that
\* runs is the processor's activeLoader.
C4_OneLoaderPerProcessor ==
    \A p \in Procs :
        /\ Cardinality({ r \in Reqs : worker[r].owner = p /\ Running(r) }) <= 1
        /\ \A r \in Reqs : worker[r].owner = p /\ Running(r) => activeLoader[p] = r

\* C4 witness: a replacement runs after the prior loader was cancelled by the new load.
C4_Witness ==
    \E r1, r2 \in Reqs :
        /\ worker[r1].out = "cancelled"
        /\ Running(r2)
        /\ worker[r2].owner = worker[r1].owner

\* C5: a process() call uses one state throughout: the latency it set on the delay
\* line and both channel convolvers come from the state it loaded at its start,
\* whatever was published during the call.
C5_OneStatePerCallback ==
    /\ audio.pc \in { "ch0", "ch1", "mix" } => audio.lat = audio.conv
    /\ audio.pc \in { "ch1", "mix" } => audio.ch0 = audio.conv
    /\ audio.pc = "mix" => audio.ch1 = audio.conv

\* C5 witness: a process() call is at its end and the slot was replaced during it.
C5_Witness ==
    /\ audio.pc = "mix"
    /\ convolution[audio.proc] # 0
    /\ convolution[audio.proc] # audio.conv

C7_DestroyedOnlyBySweep ==
    \A o \in Objs : obj[o].pub /\ obj[o].st = "freed" => obj[o].freedBy = "sweep"

\* C8: the audio callback takes no lock: it never owns trashBinLock, and each of its
\* steps can be taken whoever holds the lock, so it never waits for the message thread.
C8_AudioTakesNoLock ==
    /\ \A p \in Procs : trashBinLock[p] # "audio"
    /\ IF audio.pc = "idle" THEN \A p \in Procs : ENABLED AudioLoad(p)
       ELSE ENABLED AudioStep

\* C8 witness: the message thread holds trashBinLock of the processor whose process()
\* is under way.
C8_Witness ==
    /\ trashBinLock[audio.proc] = "message"
    /\ audio.pc \in { "loaded", "ch0", "ch1" }

\* C9: no step of a loader thread changes the active slot or a published state: while
\* a load is in flight process() keeps reading the previously published kernel.
C9_LoaderLeavesSlotAlone ==
    [][ LoaderStep =>
          /\ convolution' = convolution
          /\ \A o \in Objs : obj[o].pub => obj'[o] = obj[o] ]_vars

\* C9 witness: a loader has built its state while process() runs on the kernel
\* published before.
C9_Witness ==
    \E r \in Reqs :
        /\ worker[r].pc = "check"
        /\ convolution[worker[r].owner] # 0
        /\ audio.pc = "ch0"
        /\ audio.proc = worker[r].owner
        /\ audio.conv = convolution[worker[r].owner]

\* what reaches the caller of a load: the return value, or a change message
FailureSignalled(r) == worker[r].ret = "false" \/ r \in hist.notified

\* C10: an ingestion that aborts on an unreadable or empty source publishes nothing,
\* leaves the cached asset alone, and signals the failure to the caller.
C10_AbortKeepsStateAndSignals ==
    \A r \in Reqs :
        worker[r].out = "aborted" =>
            /\ r \notin Range(hist.published)
            /\ originalIR[worker[r].owner] # r
            /\ FailureSignalled(r)

\* C11: a post-resample sample count above the allowed bound (here the largest count
\* the loader accepts anywhere, MAX_FILE_LENGTH) is rejected before the resampled
\* buffer is allocated, and nothing is published.
C11_OversizeRejectedBeforeAlloc ==
    (ing.pc # "off" /\ ing.oversize) => ing.resAlloc = 0 /\ ing.conv = NoConv

C13_CancelledNeverPublishes ==
    \A r \in Reqs :
        worker[r].early =>
            /\ worker[r].out # "posted"
            /\ \A i \in DOMAIN msgQ : ~(msgQ[i].type = "apply" /\ msgQ[i].req = r)
            /\ r \notin Range(hist.published)
            /\ ~(msg.pc = "retire" /\ msg.req = r)

\* C13 witness: a loader that had its state built saw the flag at its last check and
\* ended, and its replacement runs.
C13_Witness ==
    \E r1, r2 \in Reqs :
        /\ worker[r1].early
        /\ worker[r1].pc = "exited"
        /\ worker[r1].out = "cancelled"
        /\ Running(r2)
        /\ \E o \in Objs : obj[o].req = r1 /\ obj[o].st = "freed"

\* the requested transform gave nothing usable: it was cancelled, or it came back
\* empty (size cap) or without a sample above the silence level
TransformFailed ==
    \/ ing.mp = "cancelled"
    \/ /\ ing.mp \in { "skipped", "applied", "silent" }
       /\ ing.minPhaseIR.len = 0 \/ MaxMagnitude(ing.minPhaseIR) = 0

\* the run was stopped at a later stage, by a cancellation or std::bad_alloc
StoppedLater == ing.mp # "cancelled" /\ ing.out \in { "cancelled", "badalloc" }

\* the published kernel is the trimmed linear-phase one
LinearKernelPublished ==
    /\ ing.conv # NoConv
    /\ ing.conv.ir.phase = "linear"
    /\ ing.conv.ir = StereoConvolverInit(ing.blockSize,
                                         Trim(ing.loadedIR, ing.targetLength),
                                         ing.targetLength, 0).ir

\* C14 as stated: when the requested minimum-phase transform is cancelled, fails or
\* gives a near-silent result, the kernel built and published is the trimmed
\* linear-phase one.
C14_FallbackAlsoWhenCancelled ==
    (ing.pc \in { "ended", "done" } /\ ing.useMinPhase /\ TransformFailed
        /\ ~StoppedLater) => LinearKernelPublished

\* C14 amended: when the requested transform fails (size cap, empty result) or gives
\* a near-silent result, the kernel built and published is the trimmed linear-phase
\* one; when the transform is cancelled, run() returns and nothing is built or
\* published.
C14_FallbackUnlessCancelled ==
    /\ (ing.pc \in { "ended", "done" } /\ ing.useMinPhase /\ TransformFailed
          /\ ing.mp # "cancelled" /\ ~StoppedLater) => LinearKernelPublished
    /\ (ing.pc # "off" /\ ing.mp = "cancelled") =>
          ing.pc = "ended" /\ ~ing.posted /\ ing.newConv = NoConv /\ ing.conv = NoConv

\* C14 witness: a transform that ran gave a near-silent result and the linear-phase
\* kernel with a sample above the silence level was published.
C14_Witness ==
    /\ ing.pc = "done"
    /\ ing.mp = "silent"
    /\ MaxMagnitude(ing.trimmed) > 0
    /\ ing.conv.ir.phase = "linear"

\* the first index at which a channel of the kernel reaches the largest magnitude
EnergyPeakIndex(b) ==
    IF MaxMagnitude(b) = 0 THEN 0
    ELSE MinOf({ e[1] : e \in { x \in Entries(b) : Abs(x[2]) = MaxMagnitude(b) } })

\* C15: the published state's irLatency is the energy-peak sample index of its kernel
\* when the kernel is a linear-phase one, also when it was kept because the requested
\* transform fell back, and 0 when the kernel was replaced by its minimum-phase
\* version.
C15_PeakIndexRecorded ==
    (ing.pc # "off" /\ ing.conv # NoConv) =>
        ing.conv.irLatency = IF ing.conv.ir.phase = "linear"
                             THEN EnergyPeakIndex(ing.conv.ir) ELSE 0

\* C16: every published kernel is min(configured seconds x sample rate, truncated to
\* an integer, MAX_IR_LATENCY) samples long whatever the source's length: a longer
\* source is cut, a shorter one is followed by zeros.
C16_KernelLength ==
    (ing.pc # "off" /\ ing.conv # NoConv) =>
        LET want == Min((ing.sampleRate * ing.sec) \div 10, MAX_IR_LATENCY)
        IN  /\ ing.conv.irLen = want
            /\ ing.conv.ir.len = want
            /\ ing.irLength = want
            /\ \A e \in Entries(ing.conv.ir) : e[1] < want
            /\ \A e \in Entries(ing.conv.ir) : e[1] < ing.loadedIR.len

\* C16 witness: a source longer than the hard cap was published as a kernel of
\* MAX_IR_LATENCY samples.
C16_Witness ==
    /\ ing.pc = "done"
    /\ ing.loadedIR.len > MAX_IR_LATENCY
    /\ ing.conv.irLen = MAX_IR_LATENCY
    /\ (ing.sampleRate * ing.sec) \div 10 > MAX_IR_LATENCY

\* C17: after a published file load the retained asset is the source as decoded, with
\* the file's own sample rate: originalIRSampleRate is the file's rate and originalIR
\* holds the file's samples (end silence and level apart), also when the loader
\* resampled the file to the processing rate.
C17_AssetIsNativeSource ==
    (ing.pc \in { "process", "done" } /\ ~ing.isRebuild) =>
        /\ ing.originalIRSampleRate = ing.file.rate
        /\ ing.originalIR = Normalise(TrimSilence(ing.file.data))

\* C18: the retained asset changes only when a file load is applied: applying the
\* result of a rebuild leaves originalIR, originalIRSampleRate and the current file
\* with its name as they were, and no other step of a run touches them.
C18_RebuildKeepsAsset ==
    [][ /\ (ing.pc = "apply" /\ ing.isRebuild) =>
              /\ ing'.originalIR = ing.originalIR
              /\ ing'.originalIRSampleRate = ing.originalIRSampleRate
              /\ ing'.currentIrFile = ing.currentIrFile
        /\ ( \/ ing'.originalIR # ing.originalIR
             \/ ing'.originalIRSampleRate # ing.originalIRSampleRate
             \/ ing'.currentIrFile # ing.currentIrFile ) =>
              (ing.pc = "apply" /\ ~ing.isRebuild) ]_vars

\* C18 witness: a rebuild that resampled the asset was applied, and the asset is still
\* the one the rebuild started from.
C18_Witness ==
    /\ ing.pc = "done"
    /\ ing.isRebuild
    /\ ing.conv # NoConv
    /\ ing.loadedSR # ing.sourceSampleRate
    /\ ing.loadedIR # ing.sourceIR
    /\ ing.originalIR = ing.sourceIR
    /\ ing.originalIR.len > 0

\* C20: in a callback that finds a kernel in the slot, the latency given to the dry
\* path's delay line and stored in currentLatency is the block latency plus, for a
\* linear-phase kernel only, the recorded peak offset, held to MAX_TOTAL_DELAY.
C20_TotalLatency ==
    (ing.pc = "done" /\ ing.conv # NoConv) =>
        LET blockLatency == ing.conv.blockSize
            peakOffset   == IF ing.conv.ir.phase = "linear" THEN ing.conv.irLatency
                            ELSE 0
        IN  /\ ing.currentLatency = Min(blockLatency + peakOffset, MAX_TOTAL_DELAY)
            /\ ing.currentLatency <= MAX_TOTAL_DELAY

\* C20 witness: a linear-phase kernel with a peak offset and a block latency that
\* together exceed the delay line, processed with the latency held at its bound.
C20_Witness ==
    /\ ing.pc = "done"
    /\ ing.conv.ir.phase = "linear"
    /\ ing.conv.irLatency > 0
    /\ ing.conv.latency + ing.conv.irLatency > MAX_TOTAL_DELAY
    /\ ing.currentLatency = MAX_TOTAL_DELAY

\* the kernel in a processor's slot was built by a loader that was given the
\* processor's present rate and block size
BuiltForCurrentSpec(p) == worker[obj[convolution[p]].req].spec = currentSpec[p]

\* all pending work has finished: no loader runs, no message waits, no handler is open
Quiescent ==
    /\ \A r \in Reqs : ~Running(r)
    /\ msgQ = << >>
    /\ msg.pc = "idle"

\* every loader that was started ran to its end and posted its kernel
AllLoadsPosted == \A r \in Reqs : worker[r].pc = "unborn" \/ worker[r].out = "posted"

\* C19: after prepareToPlay reported a changed rate or block size while an IR was
\* loaded, and once all pending work has finished, the kernel in the UI processor's
\* slot was built for the new rate and block size, also when a load was in flight at
\* the time of the notification (no load failed or was cancelled).
C19_RebuiltAfterDeviceChange ==
    (Quiescent /\ AllLoadsPosted /\ hist.lastChange = "loaded"
               /\ convolution["ui"] # 0) =>
        BuiltForCurrentSpec("ui")

\* a callback has run and found the convolver not bypassed, by neither switch
RanUnbypassed == rt.pc = "run" /\ rt.calls > 0 /\ ~rt.last.bypassed /\ ~rt.last.convBypassed

\* a callback has run and found the convolver bypassed, by either switch
RanBypassed == rt.pc = "run" /\ rt.calls > 0 /\ (rt.last.bypassed \/ rt.last.convBypassed)

\* the callback's block passed DSPCore::process's own size guard
PastCoreGuard == rt.last.n <= SAFE_MAX_BLOCK_SIZE

\* the callback left the delay line, the convolvers and the smoother where they were
NothingAdvanced ==
    /\ rt.dry = rt.last.dry
    /\ rt.wet = rt.last.wet
    /\ rt.smoother = rt.last.smoother

\* C21: in every callback that is not bypassed, finds a kernel in the slot and comes
\* with a block within capacity, the delay line and both convolvers are advanced by
\* the block, whatever the mix (0 % and 100 % included).
C21_BothPathsAdvance ==
    (RanUnbypassed /\ rt.last.isPrepared /\ rt.last.conv # NoConv
                   /\ rt.last.blockLen <= rt.capacity) =>
        /\ rt.dry = rt.last.dry + rt.last.blockLen
        /\ rt.wet = << rt.last.wet[1] + rt.last.blockLen,
                       rt.last.wet[2] + rt.last.blockLen >>

\* C21 witness: a callback at 0 % mix with no ramp under way gave the dry signal and
\* still advanced both convolvers.
C21_Witness ==
    /\ RanUnbypassed
    /\ rt.last.mix = 0
    /\ rt.out = "dry"
    /\ rt.last.blockLen > 0
    /\ rt.wet[1] = rt.last.wet[1] + rt.last.blockLen
    /\ rt.wet[2] = rt.last.wet[2] + rt.last.blockLen
    /\ rt.dry = rt.last.dry + rt.last.blockLen

\* C22: a block larger than the pre-allocated capacity is rejected: the output block
\* is cleared and neither the delay line, the convolvers nor the mix smoother is
\* advanced.
C22_OversizeCleared ==
    (RanUnbypassed /\ rt.last.conv # NoConv /\ rt.last.blockLen > rt.capacity) =>
        /\ rt.out = "cleared"
        /\ NothingAdvanced

\* C23: with a null slot process() returns without dereferencing the state and
\* without changing the delay-line setting, currentLatency or any internal buffer.
C23_NullSlotSkipped ==
    (rt.pc = "run" /\ rt.calls > 0 /\ rt.last.conv = NoConv) =>
        /\ ~rt.deref
        /\ rt.delay = rt.last.delay
        /\ rt.currentLatency = rt.last.currentLatency
        /\ NothingAdvanced
        /\ rt.out \in { "in", "cleared" }

\* C23 witness: process() was reached with a null slot, unbypassed, on a block that
\* fits, and returned.
C23_Witness ==
    /\ RanUnbypassed
    /\ rt.last.conv = NoConv
    /\ rt.last.n > 0
    /\ rt.last.blockLen <= rt.capacity
    /\ rt.out = "in"

\* C24: in every callback in which the convolver is bypassed the block after
\* process() is the block before it, whatever the kernel, the mix and the callbacks
\* that came before.
C24_BypassPassthrough ==
    (RanBypassed /\ PastCoreGuard) =>
        /\ rt.out = "in"
        /\ NothingAdvanced

\* C24 witness: bypass was switched on after a callback that had convolved, with a
\* kernel in the slot and a mix between the ends.
C24_Witness ==
    /\ RanBypassed
    /\ rt.last.bypassed
    /\ rt.last.conv # NoConv
    /\ rt.last.mix = 50
    /\ rt.last.dry > 0
    /\ rt.last.n > 0
    /\ rt.out = "in"

\* C25: in every callback during bypass that finds a kernel in the slot, the
\* delay-line setting and currentLatency are set to that kernel's total latency, for
\* the bypass of AudioEngine::setConvolverBypassRequested as for
\* ConvolverProcessor::setBypass.
C25_LatencyRefreshedInBypass ==
    (RanBypassed /\ PastCoreGuard /\ rt.last.conv # NoConv) =>
        /\ rt.delay = TotalLatency(rt.last.conv)
        /\ rt.currentLatency = TotalLatency(rt.last.conv)

\* C26: above the soft cap of 20 entries the sweep only raises the diagnostic; an entry
\* of the reclamation queue that is referenced elsewhere (count above 1) is still in
\* the queue after every step, whatever the queue's length, and leaving the queue
\* takes a count of exactly 1.
C26_CapOnlyDiagnoses ==
    [][ /\ \A c \in Range(eng.trashBin) :
              eng.core[c].rc > 1 => c \in Range(eng'.trashBin)
        /\ \A c \in Range(eng.trashBin) \ Range(eng'.trashBin) : eng.core[c].rc = 1
        /\ (eng.timer = "idle" /\ eng'.timer = "delete")
              => (eng'.diag <=> Len(eng'.trashBin) > TrashSoftCap) ]_vars

\* the queue is over the cap, the diagnostic was raised, and an entry the audio
\* callback still holds has been through a sweep's test and is still queued
C26_Witness ==
    /\ eng.pc = "run"
    /\ eng.diag
    /\ Len(eng.trashBin) > TrashSoftCap
    /\ \E c \in Range(eng.trashBin) :
          /\ eng.core[c].rc > 1
          /\ eng.core[c].age = 2
          /\ eng.audio = [ pc |-> "held", dsp |-> c ]

\* C30: no DSPCore is destroyed while a running getNextAudioBlock has loaded it, the
\* window between the load of currentDSP and the count's increment included.
C30_NeverDestroyedWhileLoaded ==
    eng.pc = "run" =>
        /\ ~ eng.uaf
        /\ eng.audio.pc \in { "loaded", "held" } => eng.core[eng.audio.dsp].st = "live"

\* C27: once a kernel with a non-zero sample is published, the waveform snapshot's
\* largest entry is exactly 1, whatever the kernel's length.
C27_WaveformPeakIsOne ==
    (ing.pc \in { "process", "done" } /\ MaxMagnitude(ing.conv.ir) > 0) =>
        /\ \E w \in ing.irWaveform : w[2] = w[3]
        /\ \A w \in ing.irWaveform : w[2] <= w[3]

\* C28: after the liftering of a cepstrum of transform size N, sample 0 and sample
\* N/2 are as they were, every sample strictly between them is twice what it was, and
\* every sample above N/2 is 0.
C28_Liftering ==
    cep.pc = "liftered" =>
        \A i \in 0 .. cep.fftSize - 1 :
            cep.data[i + 1] = IF i = 0 \/ 2 * i = cep.fftSize THEN cep.cepstrum[i + 1]
                              ELSE IF 2 * i < cep.fftSize THEN 2 * cep.cepstrum[i + 1]
                              ELSE 0

\* a cepstrum of size 8 has been liftered: samples were doubled, kept and zeroed
C28_Witness ==
    /\ cep.pc = "liftered"
    /\ cep.fftSize = 8
    /\ cep.data[2] = 2 * cep.cepstrum[2]
    /\ cep.data[5] = cep.cepstrum[5]
    /\ cep.data[8] = 0

\* C31: the state in the slot of a DSPCore's convolver is never the object in the slot
\* of the UI processor, after any sequence of syncStateFrom and syncParametersFrom.
C31_CoreHasOwnCopy ==
    convolution["dsp"] # 0 => convolution["dsp"] # convolution["ui"]

\* C32: once the last worker has finished (by publishing, by an early exit or by an
\* allocation failure) and the message queue is drained, isLoading and isRebuilding
\* are false on every processor.
C32_FlagsResetAtRest ==
    Quiescent => \A p \in Procs : ~isLoading[p] /\ ~isRebuilding[p]

\* at rest after a rebuild that superseded a load and then failed on an allocation
C32_Witness ==
    /\ Quiescent
    /\ \E r1, r2 \in Reqs :
          /\ worker[r1].out = "cancelled"
          /\ worker[r2].out = "badalloc"
    /\ ~isLoading["ui"] /\ ~isRebuilding["ui"]

\* the kernel in processor p's slot was built with p's present parameters
BuiltWithCurrentParams(p) ==
    LET w == worker[obj[convolution[p]].req]
    IN  /\ w.useMinPhase = param[p].useMinPhase
        /\ w.sec = param[p].targetIRLengthSec

\* C33: after setUseMinPhase and setTargetIRLength calls made with an IR loaded, once
\* all workers and posted completions have finished (none of them failed or was
\* cancelled), the kernel in the UI processor's slot was built with the present
\* useMinPhase and the present target length.
C33_BuiltWithCurrentParams ==
    (Quiescent /\ AllLoadsPosted /\ ~hist.setUnloaded /\ convolution["ui"] # 0) =>
        BuiltWithCurrentParams("ui")

\* C34: isLoading reads true on a processor whenever one of its LoaderThreads is in
\* flight, also when the completion message of an earlier worker is delivered in
\* between.
C34_LoadingWhileInFlight ==
    \A r \in Reqs : Running(r) => isLoading[worker[r].owner]

\* what a call of loadImpulseResponse may not touch when it starts nothing: the slot,
\* the loaders, the flags, the queues and the asset
CallLeftNoTrace ==
    UNCHANGED << convolution, trashBin, obj, worker, activeLoader, msgQ, msg,
                 isLoading, isRebuilding, originalIR >>

\* C35: a rebuild request made while isRebuilding is set returns true, starts no
\* worker and neither cancels nor restarts the worker in flight.
C35_RebuildSkippedWhileRebuilding ==
    [][ \A p \in LoadProcs :
          LoadSkip(p) => (hist'.lastRet = "true" /\ CallLeftNoTrace) ]_vars

\* the last request was skipped and the rebuild it found in flight is still running,
\* its exit flag not set
C35_Witness ==
    /\ hist.skipped
    /\ isRebuilding["ui"]
    /\ activeLoader["ui"] # 0
    /\ worker[activeLoader["ui"]].rebuild
    /\ Running(activeLoader["ui"])
    /\ ~worker[activeLoader["ui"]].exit

\* C36: a load request that returns false (a file that does not exist, a rebuild
\* without a cached asset) leaves the slot, the worker in flight, isLoading and
\* isRebuilding as they were.
C36_RejectChangesNothing ==
    [][ \A p \in LoadProcs : \A f \in FileKinds \cup { NoFile } :
          LoadReject(p, f) => (hist'.lastRet = "false" /\ CallLeftNoTrace) ]_vars

\* the last request was rejected while a load was in flight, which goes on
C36_Witness ==
    /\ hist.lastRet = "false"
    /\ isLoading["ui"]
    /\ activeLoader["ui"] # 0
    /\ Running(activeLoader["ui"])
    /\ ~worker[activeLoader["ui"]].exit

\* C37: a superseded state that sits in a processor's reclamation queue and has no
\* holder but the queue is eventually freed, with no further publish needed: the
\* periodic cleanup on the message thread releases it.
C37_QueuedStateEventuallyFreed ==
    \A p \in Procs : \A o \in Objs :
        (o \in Range(trashBin[p]) /\ obj[o].rc = 1) ~> (obj[o].st = "freed")

\* a state that outlived the sweep of its own retirement has been freed by the timer
C37_Witness ==
    \E o \in Objs : obj[o].pub /\ obj[o].st = "freed" /\ obj[o].freedBy = "timer"

\* the block the last callback came with broke one of getNextAudioBlock's guards
GuardViolated ==
    \/ rt.info.numSamples < 1
    \/ rt.info.numSamples > rt.maxSamplesPerBlock
    \/ rt.info.startSample < 0
    \/ rt.info.startSample > rt.info.size - rt.info.numSamples
    \/ ~rt.info.published

\* C38: a callback that comes with a buffer and breaks a guard (numSamples outside
\* 1..maxSamplesPerBlock, startSample negative, startSample + numSamples beyond the
\* buffer, no DSPCore published) has its region cleared, does not call the DSPCore
\* and advances no processor state.
C38_GuardViolationSilences ==
    (rt.pc = "run" /\ rt.calls > 0 /\ rt.info.hasBuffer /\ GuardViolated) =>
        /\ rt.out = "cleared"
        /\ ~rt.processed
        /\ NothingAdvanced
        /\ rt.delay = rt.last.delay

\* C39 as stated: once the UI has published a kernel, the change notification makes
\* the engine commit a DSPCore whose convolver's state comes from that kernel, unless
\* the UI has published another one by then.
C39_NotificationCommits ==
    \A k \in 1 .. MaxLoads :
        (eng.pc = "follow" /\ eng.ui = k) ~> (eng.core.kernel = k \/ eng.ui # k)

\* C39, amended: while currentSampleRate is positive the notification commits such a
\* DSPCore (a kernel published after releaseResources is committed by the next
\* prepareToPlay), and while the device runs a callback eventually processes with it,
\* unless the UI has published another kernel by then.
C39_KernelReachesAudio ==
    \A k \in 1 .. MaxLoads :
        /\ (eng.pc = "follow" /\ eng.ui = k /\ eng.sampleRate > 0)
               ~> (eng.core.kernel = k \/ eng.ui # k \/ eng.sampleRate <= 0)
        /\ (eng.pc = "follow" /\ eng.ui = k /\ eng.playing)
               ~> (eng.used = k \/ eng.ui # k \/ ~eng.playing)

\* the second kernel the UI published has been processed by a callback, through a
\* core built by requestRebuild's deep copy
C39_Witness ==
    /\ eng.pc = "follow"
    /\ eng.ui = 2
    /\ eng.used = 2
    /\ eng.core = [ kernel |-> 2, how |-> "copy" ]
    /\ ~eng.changePending

====
